---------------------------- MODULE Spec2Model ----------------------------
(***************************************************************************)
(* Model of the CKKS toolkit of maloleroy/fhe-bpce:                        *)
(*   - fhe-core/src/pring.rs         Coeff<P>, Polynomial<P, N>            *)
(*   - fhe-core/src/rand/...         Uniform, Truncated                    *)
(*   - ckks-lib/src/polynomial.rs    scaled i64 polynomial backend         *)
(*   - ckks-lib/src/cipher/scaled.rs ScaledPolynomial<P, N>                *)
(*   - ckks-lib/src/{key,cipher,ops}.rs key generation, encryption,        *)
(*     decryption, homomorphic addition                                    *)
(*                                                                         *)
(* Machine integers: the code computes in i64.  The model keeps the        *)
(* two's-complement behaviour but at a width of IntBits bits, so that the  *)
(* products that leave the machine range are within reach of the checker.  *)
(* The moduli of the model stand in the same relation to 2^(IntBits-1) as  *)
(* the moduli of the code do to 2^63: 7 is a modulus whose square fits,    *)
(* 13 one whose square does not (as 10_000_000_007 for i64).               *)
(*                                                                         *)
(* Floating point: scales are positive integers and every quotient of      *)
(* scales is kept as an exact fraction; libm::round is round-half-away-    *)
(* from-zero on that fraction.                                             *)
(***************************************************************************)
EXTENDS Integers, Sequences, FiniteSets, TLC

VARIABLES
    build,      \* "debug" (overflow checks on: arithmetic overflow panics) or "release" (wraps)
    cP,         \* Coeff<P>: the modulus P of the coefficient type under test
    ca,         \* Coeff<P>: stored value of the left operand
    cb,         \* Coeff<P>: stored value of the right operand
    cres,       \* Coeff<P>: outcome of the last operation, [kind, v]; kind is "ok" or "panic"
    cop,        \* Coeff<P>: the last operation applied ("new", "add", "sub", "mul", "neg")
    rP,         \* Polynomial<P, N>: the modulus P
    rN,         \* Polynomial<P, N>: the exponent N (the ring is Z_P[X]/(X^M + 1), M = 2^N)
    rrawA,      \* raw Vec<i64> handed to Polynomial::new for the first polynomial
    rrawB,      \* raw Vec<i64> handed to Polynomial::new for the second polynomial
    ra,         \* first polynomial: its stored coefficients (Coeff.0), index 1 = X^0
    rb,         \* second polynomial
    rx,         \* left operand of the last add / multiply
    ry,         \* right operand of the last add / multiply
    racc,       \* outcome of the last add / multiply, [kind, v]; kind is "ok" or "panic"
    rfold,      \* last call of rem_cyclo: [raw |-> the integers folded, out |-> its result]
    rop,        \* last operation ("start", "new", "add", "multiply")
    rsteps,     \* number of add / multiply calls so far
    ustart,     \* Uniform: range.start()
    uend,       \* Uniform: range.end()
    urd,        \* Uniform: outcome of rand::<T>() in the last sample (Ok(raw integer) or Err)
    ures,       \* Uniform: outcome of the last sample()
    uop,        \* Uniform: "new" after Uniform::new, "sample" after sample()
    cfg,        \* ckks-lib Config: [degree, modulus, beta]
    skey,       \* SecretKey.p: a scaled polynomial [coeffs, scale]
    pkey,       \* PublicKey: [p0, p1], two scaled polynomials
    kerr,       \* the rounded error samples e drawn by generate_keys (kept for the claims)
    pt,         \* plaintext handed to encrypt, in thousandths (1000 is 1.0)
    pscale,     \* scale handed to encrypt
    erand,      \* randomness drawn by encrypt: [u, e1, e2]
    ct,         \* Ciphertext: [c0, c1]
    dec,        \* Vec<Plaintext> returned by decrypt, in thousandths
    kpc,        \* progress: "config", "keys", "encrypted", "decrypted", "panicked"
    hmod,       \* ops.rs: self.config().modulus() of the Encryptor
    hlhs,       \* ops.rs: lhs.0, the polynomial of the left ciphertext
    hrhs,       \* ops.rs: rhs.0, the polynomial of the right ciphertext
    hres,       \* ops.rs: the polynomial of the ciphertext homomorphic_add returned
    hop,        \* ops.rs: "start", then "add" after homomorphic_add
    sP,         \* ScaledPolynomial<P, N>: the modulus P
    sN,         \* ScaledPolynomial<P, N>: the exponent N
    slhs,       \* ScaledPolynomial: left operand [p, scale], p the stored coefficients
    srhs,       \* ScaledPolynomial: right operand
    sres,       \* ScaledPolynomial: result of the last add
    sop,        \* ScaledPolynomial: "start", then "add" after ScaledPolynomial::add
    eP,         \* encode/decode: the modulus P of ScaledPolynomial<P, N>
    eN,         \* encode/decode: the exponent N
    ev,         \* encode/decode: the plaintext vector, in thousandths
    escale,     \* encode/decode: the scale handed to encode
    epoly,      \* encode/decode: the ScaledPolynomial encode returned
    edec,       \* encode/decode: the vector decode returned, in thousandths
    eop,        \* encode/decode: "start", "encoded", "decoded"
    bitems,     \* server: the batch the client sent, a sequence of [lhs, rhs, op]
    bstage,     \* server: "listen", "decoded", "sent", "send_failed", "recv_failed", "decode_failed"
    bnext,      \* server: number of items already taken from iter_over_data()
    bhold,      \* server: per worker, the index of the item it is operating on (0: none)
    blocal,     \* server: per worker, the results it has produced, in its own order
    bsent,      \* server: the result vector encoded and sent back
    wbatch,     \* wire: the batch to send, a sequence of [lhs, rhs, op], ciphertexts as bytes
    wbytes,     \* wire: the encoding of the batch, a sequence of words
    wdec,       \* wire: outcome of decoding wbytes (Ok(batch) or Err)
    wop,        \* wire: "start", "encoded", "decoded"
    xlhs,       \* ExchangeData.lhs: a sequence of ciphertext handles (byte vectors)
    xrhs,       \* ExchangeData.rhs: a sequence of optional handles [some, v]
    xops,       \* ExchangeData.operation: a sequence of operations
    xiter,      \* ExchangeData: the triples iter_over_data() yielded
    xlen,       \* ExchangeData: outcome of len() (Ok(n) or Panic)
    xstage,     \* ExchangeData: "start", "decode_failed", "built", "iterated", "measured", "panicked"
    qdata,      \* SeqOpsData.0: the inner Vec<SeqOpItem>
    qgiven,     \* SeqOpsData: the vector handed to from_vec (empty after new)
    qpushed,    \* SeqOpsData: the items handed to push so far, in call order
    qstage,     \* SeqOpsData: "start", "new", "from_vec", "push"
    selItems,   \* SelectableCollection.items: a sequence of [ciphertext, flags]
    selValues,  \* per item, the plaintext it was created from
    selFlags,   \* per item and flag slot, the last Flag written by set_flag_plain ("Off" if none)
    selRes,     \* outcome of the last fold (Ok(ciphertext) or Panic)
    selCalls,   \* the operate2 calls the last fold made, in order, as [op, lhs, rhs]
    selArg,     \* arguments of the last fold: [op, flag_index]
    selOp,      \* last operation: "new", "push_plain", "set_flag_plain", "operate_many",
                \* "operate_many_where_flag", "panicked"
    va,         \* equality: the stored coefficients of the first polynomial
    vb,         \* equality: the second polynomial
    vc,         \* equality: the third polynomial
    veq,        \* equality: the results of ==, [aa, ab, ba, bc, ac]
    vop,        \* equality: "start", then "eq" after the comparisons
    dpoly,      \* degree: the stored coefficients of the polynomial
    ddeg,       \* degree: the value degree() returned
    dop,        \* degree: "start", then "degree"
    ysys,       \* CryptoSystem: [scheme, relin_key]
    ylhs,       \* CryptoSystem: the left ciphertext before the call
    yrhs,       \* CryptoSystem: the right ciphertext before the call
    yop,        \* CryptoSystem: the operation of the last call, [tag, arg]
    yout,       \* CryptoSystem: outcome of operate1 / operate2 (Ok(ciphertext) or Panic)
    yinp,       \* CryptoSystem: outcome of the in-place call, the ciphertext it leaves (or Panic)
    yrhs2,      \* CryptoSystem: the right ciphertext after the in-place call
    ystage,     \* CryptoSystem: "start", "operate1", "operate2", "relinearize"
    tfn,        \* truncation: the function called, "Truncated" (sample) or "rand_gaussian_truncated"
    targ,       \* truncation: its bounds [lo, hi] or its parameters [mu, beta]
    tlast,      \* truncation: the last outcome of the inner distribution
    tres,       \* truncation: what the call returned (Ok(x) or Err)
    titers,     \* truncation: samples the call rejected, counted up to MaxIters
    tcoeffs,    \* Polynomial::random: the coefficients sampled so far, then the polynomial
    tpc,        \* truncation: "loop", "returned", "panicked" (unwrap), "done" (random returned)
    nbytes,     \* handle_client: the words received from the client
    ndec,       \* handle_client: outcome of decoding them (Ok(batch), Err or Panic)
    nsent,      \* handle_client: the results sent back, one [op, lhs, rhs] per item (a set: C12)
    npc,        \* handle_client: "accept", "received", "decoded", "failed", "panicked", "sent"
    ga,         \* remainder: the coefficients of the dividend
    gn,         \* remainder: the exponent n, the divisor being X^(2^n) + 1
    gp,         \* remainder: the modulus handed to rem_cyclo
    grem,       \* remainder: outcome of rem (Ok(coefficients) or Panic)
    gcyc,       \* remainder: outcome of rem_cyclo (Ok(coefficients) or Panic)
    gop,        \* remainder: "start", then "done"
    lP,         \* ring laws: the modulus P
    la,         \* ring laws: the stored coefficients of a
    lb,         \* ring laws: the stored coefficients of b
    lc,         \* ring laws: the stored coefficients of c
    lres,       \* ring laws: the outcomes [ab, ba, lhs, rhs] of the four expressions
    lop         \* ring laws: "start", then "done"

coeffVars == <<cP, ca, cb, cres, cop>>
ringVars == <<rP, rN, rrawA, rrawB, ra, rb, rx, ry, racc, rfold, rop, rsteps>>
randVars == <<ustart, uend, urd, ures, uop>>
ckksVars == <<cfg, skey, pkey, kerr, pt, pscale, erand, ct, dec, kpc>>
opsVars == <<hmod, hlhs, hrhs, hres, hop>>
scaledVars == <<sP, sN, slhs, srhs, sres, sop>>
encVars == <<eP, eN, ev, escale, epoly, edec, eop>>
srvVars == <<bitems, bstage, bnext, bhold, blocal, bsent>>
wireVars == <<wbatch, wbytes, wdec, wop>>
exchVars == <<xlhs, xrhs, xops, xiter, xlen, xstage>>
seqVars == <<qdata, qgiven, qpushed, qstage>>
selVars == <<selItems, selValues, selFlags, selRes, selCalls, selArg, selOp>>
eqVars == <<va, vb, vc, veq, vop>>
degVars == <<dpoly, ddeg, dop>>
csVars == <<ysys, ylhs, yrhs, yop, yout, yinp, yrhs2, ystage>>
truncVars == <<tfn, targ, tlast, tres, titers, tcoeffs, tpc>>
netVars == <<nbytes, ndec, nsent, npc>>
remVars == <<ga, gn, gp, grem, gcyc, gop>>
lawVars == <<lP, la, lb, lc, lres, lop>>
vars == <<build, coeffVars, ringVars, randVars, ckksVars, opsVars, scaledVars, encVars, srvVars, wireVars, exchVars, seqVars, selVars, eqVars, degVars, csVars, truncVars, netVars, remVars, lawVars>>

---------------------------------------------------------------------------
(* Bounds of the model.                                                    *)

\* Width in bits of the machine integer standing for i64.
IntBits == 8
\* Raw integers handed to Coeff::new range over -MaxRaw .. MaxRaw + (modulus).
MaxRaw == 2
\* Longest raw coefficient list handed to Polynomial::new when folding is examined.
MaxRawLen == 5
\* Longest raw coefficient list of each operand when ring operations are chained.
MaxOperandLen == 2
\* Number of chained add / multiply calls.
MaxSteps == 2
\* Longest ciphertext polynomial handed to homomorphic_add.
MaxCtLen == 2
\* Longest raw coefficient list of an operand of ScaledPolynomial::add.
MaxScaledLen == 2
\* Longest plaintext vector handed to ScaledPolynomial::encode (at most M).
MaxEncLen == 2
\* Longest batch received by handle_client.
MaxBatch == 3
\* Number of rayon workers that pull items from the bridged iterator.
NumWorkers == 2
\* Longest batch encoded to the wire.
MaxWireBatch == 2
\* Longest vector handed to ExchangeData::new.
MaxExchLen == 2
\* Longest input handed to the decoder of ExchangeData, in words.
MaxExchWire == 4
\* Number of push calls on one SeqOpsData.
MaxPush == 3
\* Longest vector handed to SeqOpsData::from_vec.
MaxFromVec == 2
\* Largest number of items in a SelectableCollection.
MaxItems == 3
\* Longest raw coefficient list of a polynomial that is compared.
MaxEqLen == 3
\* Longest raw coefficient list of a polynomial whose degree is taken.
MaxDegLen == 4
\* Largest plaintext under a ciphertext handed to a CryptoSystem.
MaxCsValue == 3
\* Rejected samples of one call that are counted (the count saturates).
MaxIters == 2
\* Exponent N of the ring of Polynomial::random (M = 2^N samples).
RandomExp == 1
\* Longest request received by handle_client, in words.
MaxRequest == 5
\* Longest dividend handed to rem and rem_cyclo.
MaxDividendLen == 3
\* Longest raw coefficient list of an operand of the ring laws.
MaxLawLen == 2
\* Exponent N of the ring of the ring laws (M = 2^N).
LawExp == 1

---------------------------------------------------------------------------
(* Machine arithmetic.                                                     *)

Pow2(n) == IF n = 0 THEN 1 ELSE 2 ^ n

IntMax == Pow2(IntBits - 1) - 1
IntMin == -Pow2(IntBits - 1)

\* Does x fit the machine integer?
Fits(x) == IntMin <= x /\ x <= IntMax

\* Two's complement wrap-around of an out-of-range result (release build).
Wrap(x) == ((x - IntMin) % Pow2(IntBits)) + IntMin

\* i64::rem_euclid for a positive modulus: least non-negative remainder.
rem_euclid(x, m) == x % m

Abs(x) == IF x < 0 THEN -x ELSE x

\* An operation's outcome: a returned value (Ok), a returned error (Err, the
\* CSPRNG failed), or a panic.
Ok(v) == [kind |-> "ok", v |-> v]
Err == [kind |-> "err", v |-> 0]
Panic == [kind |-> "panic", v |-> 0]
IsOk(o) == o.kind = "ok"

\* Outcome of an i64 expression whose exact value is x, under the build's
\* overflow semantics: debug builds panic on overflow, release builds wrap.
Checked(b, x) == IF Fits(x) THEN Ok(x) ELSE IF b = "debug" THEN Panic ELSE Ok(Wrap(x))

---------------------------------------------------------------------------
(* Each specification below exercises one part of the library; the state   *)
(* of the parts it does not use stays at these values.                     *)

IdleCoeff ==
    /\ cP = 7 /\ ca = 0 /\ cb = 0 /\ cres = Ok(0) /\ cop = "idle"

IdleRing ==
    /\ rP = 7 /\ rN = 1 /\ rrawA = <<>> /\ rrawB = <<>>
    /\ ra = <<>> /\ rb = <<>> /\ rx = <<>> /\ ry = <<>>
    /\ racc = Ok(<<>>) /\ rfold = [raw |-> <<>>, out |-> <<>>]
    /\ rop = "idle" /\ rsteps = 0

IdleRand ==
    /\ ustart = 0 /\ uend = 0 /\ urd = Ok(0) /\ ures = Ok(0) /\ uop = "idle"

\* The ckks-lib polynomial with no coefficients and scale 1.0.
EmptyPoly == [coeffs |-> <<>>, scale |-> 1]

IdleCkks ==
    /\ cfg = [degree |-> 1, modulus |-> 7, beta |-> 19]
    /\ skey = EmptyPoly /\ pkey = [p0 |-> EmptyPoly, p1 |-> EmptyPoly] /\ kerr = <<>>
    /\ pt = <<>> /\ pscale = 1 /\ erand = [u |-> <<>>, e1 |-> <<>>, e2 |-> <<>>]
    /\ ct = [c0 |-> EmptyPoly, c1 |-> EmptyPoly] /\ dec = <<>> /\ kpc = "idle"

IdleOps ==
    /\ hmod = 7 /\ hlhs = EmptyPoly /\ hrhs = EmptyPoly /\ hres = EmptyPoly /\ hop = "idle"

EmptyScaled == [p |-> <<>>, scale |-> 1]

IdleScaled ==
    /\ sP = 7 /\ sN = 1 /\ slhs = EmptyScaled /\ srhs = EmptyScaled /\ sres = EmptyScaled
    /\ sop = "idle"

IdleEnc ==
    /\ eP = 7 /\ eN = 1 /\ ev = <<>> /\ escale = 1 /\ epoly = EmptyScaled /\ edec = <<>>
    /\ eop = "idle"

IdleSrv ==
    /\ bitems = <<>> /\ bstage = "idle" /\ bnext = 0 /\ bhold = <<>> /\ blocal = <<>>
    /\ bsent = <<>>

IdleWire ==
    /\ wbatch = <<>> /\ wbytes = <<>> /\ wdec = Err /\ wop = "idle"

IdleExch ==
    /\ xlhs = <<>> /\ xrhs = <<>> /\ xops = <<>> /\ xiter = <<>> /\ xlen = Ok(0)
    /\ xstage = "idle"

IdleSeq ==
    /\ qdata = <<>> /\ qgiven = <<>> /\ qpushed = <<>> /\ qstage = "idle"

IdleSel ==
    /\ selItems = <<>> /\ selValues = <<>> /\ selFlags = <<>> /\ selRes = Ok(0)
    /\ selCalls = <<>> /\ selArg = [op |-> "Add", flag_index |-> 0] /\ selOp = "idle"

IdleEq ==
    /\ va = <<>> /\ vb = <<>> /\ vc = <<>> /\ vop = "idle"
    /\ veq = [aa |-> TRUE, ab |-> TRUE, ba |-> TRUE, bc |-> TRUE, ac |-> TRUE]

IdleDeg ==
    /\ dpoly = <<>> /\ ddeg = 0 /\ dop = "idle"

IdleCs ==
    /\ ysys = [scheme |-> "none", relin_key |-> FALSE]
    /\ ylhs = [v |-> 0, size |-> 2] /\ yrhs = [v |-> 0, size |-> 2]
    /\ yrhs2 = [v |-> 0, size |-> 2]
    /\ yop = [tag |-> "none", arg |-> 0]
    /\ yout = Panic /\ yinp = Panic
    /\ ystage = "idle"

IdleTrunc ==
    /\ tfn = "none" /\ targ = [lo |-> 0, hi |-> 0] /\ tlast = Err /\ tres = Err
    /\ titers = 0 /\ tcoeffs = <<>> /\ tpc = "idle"

IdleNet ==
    /\ nbytes = <<>> /\ ndec = Err /\ nsent = {} /\ npc = "idle"

IdleRem ==
    /\ ga = <<>> /\ gn = 0 /\ gp = 1 /\ grem = Ok(<<>>) /\ gcyc = Ok(<<>>) /\ gop = "idle"

IdleLaw ==
    /\ lP = 1 /\ la = <<>> /\ lb = <<>> /\ lc = <<>> /\ lop = "idle"
    /\ lres = [ab |-> Ok(<<>>), ba |-> Ok(<<>>), lhs |-> Ok(<<>>), rhs |-> Ok(<<>>)]

---------------------------------------------------------------------------
(* fhe-core/src/pring.rs: Coeff<P>.                                        *)

\* The moduli of the model: one whose square fits the machine integer, one
\* whose square does not.
Moduli == {7, 13}

Coeff_new(P, coeff) == rem_euclid(coeff, P)

\* Stored value of self + rhs; the sum is formed in the machine integer.
Coeff_add(b, P, x, y) ==
    LET s == Checked(b, x + y) IN IF IsOk(s) THEN Ok(rem_euclid(s.v, P)) ELSE Panic

Coeff_sub(b, P, x, y) ==
    LET s == Checked(b, x - y) IN IF IsOk(s) THEN Ok(rem_euclid(s.v, P)) ELSE Panic

\* Stored value of self * rhs: the product is formed in the machine integer
\* (self.0 * rhs.0), then reduced.
Coeff_mul(b, P, x, y) ==
    LET s == Checked(b, x * y) IN IF IsOk(s) THEN Ok(rem_euclid(s.v, P)) ELSE Panic

\* Stored value of -self: P - self.0, not reduced.
Coeff_neg(b, P, x) == Checked(b, P - x)

---------------------------------------------------------------------------
(* fhe-core/src/pring.rs: Polynomial<P, N>.                                *)

\* Const M: usize = 1 << N.
RingM(N) == Pow2(N)

\* slice.get(i).copied().unwrap_or(Coeff(0)), i counted from 1.
GetOr0(x, i) == IF i <= Len(x) THEN x[i] ELSE 0

Max(a, b) == IF a >= b THEN a ELSE b
Min(a, b) == IF a <= b THEN a ELSE b

\* The loop of rem_cyclo after the first n coefficients of c: r[j] receives
\* + coeff while k is true and - coeff while k is false; j wraps at M and k
\* flips at every wrap.
RECURSIVE CycloLoop(_, _, _, _, _)
CycloLoop(b, P, M, c, n) ==
    IF n = 0 THEN [i \in 1 .. M |-> 0]
    ELSE LET r == CycloLoop(b, P, M, c, n - 1)
             j == (n - 1) % M
             k == ((n - 1) \div M) % 2 = 0
         IN [r EXCEPT ![j + 1] = IF k THEN Coeff_add(b, P, r[j + 1], c[n]).v
                                      ELSE Coeff_sub(b, P, r[j + 1], c[n]).v]

\* Mutants of rem_cyclo: one that never folds, one that cuts the polynomial
\* at M coefficients instead of folding the rest back with alternating sign.
Polynomial_rem_cyclo_nofold(b, P, N, c) == c

Polynomial_rem_cyclo_cut(b, P, N, c) ==
    IF Len(c) < RingM(N) THEN c ELSE SubSeq(c, 1, RingM(N))

\* Polynomial::rem_cyclo: a polynomial shorter than M is returned as it is.
Polynomial_rem_cyclo(b, P, N, c) ==
    IF Len(c) < RingM(N) THEN c ELSE CycloLoop(b, P, RingM(N), c, Len(c))

\* Polynomial::new: reduce every raw coefficient, then fold.
Polynomial_new(b, P, N, raw) ==
    Polynomial_rem_cyclo(b, P, N, [i \in 1 .. Len(raw) |-> Coeff_new(P, raw[i])])

\* Polynomial::add: coefficient-wise, the shorter side padded with Coeff(0).
Polynomial_add(b, P, x, y) ==
    [i \in 1 .. Max(Len(x), Len(y)) |-> Coeff_add(b, P, GetOr0(x, i), GetOr0(y, i)).v]

\* Coefficient k (from 0) of the product vector after the outer loop of
\* multiply has run over the first i coefficients of x:
\* coeffs[i + j] = coeffs[i + j] + (l * r).
RECURSIVE ConvAt(_, _, _, _, _, _)
ConvAt(b, P, x, y, k, i) ==
    IF i = 0 THEN Ok(0)
    ELSE LET prev == ConvAt(b, P, x, y, k, i - 1)
             j == k - (i - 1)
         IN IF ~IsOk(prev) THEN Panic
            ELSE IF j < 0 \/ j >= Len(y) THEN prev
            ELSE LET pr == Coeff_mul(b, P, x[i], y[j + 1])
                 IN IF IsOk(pr) THEN Coeff_add(b, P, prev.v, pr.v) ELSE Panic

\* The unfolded product vector of multiply, of length len(x) + len(y) - 1.
\* The length is a usize: for two empty operands 0 + 0 - 1 underflows, which
\* panics in a debug build and asks vec! for usize::MAX elements (capacity
\* overflow, a panic) in a release build.
Polynomial_multiply_raw(b, P, x, y) ==
    IF Len(x) + Len(y) = 0 THEN Panic
    ELSE LET cs == [k \in 1 .. (Len(x) + Len(y) - 1) |-> ConvAt(b, P, x, y, k - 1, Len(x))]
         IN IF \E k \in DOMAIN cs : ~IsOk(cs[k]) THEN Panic
            ELSE Ok([k \in DOMAIN cs |-> cs[k].v])

\* Polynomial::multiply: schoolbook product, then rem_cyclo.
Polynomial_multiply(b, P, N, x, y) ==
    LET raw == Polynomial_multiply_raw(b, P, x, y)
    IN IF IsOk(raw) THEN Ok(Polynomial_rem_cyclo(b, P, N, raw.v)) ELSE Panic

---------------------------------------------------------------------------
(* Specifications SpecRing and SpecFold: polynomials built by              *)
(* Polynomial::new and combined by add and multiply.  SpecRing chains      *)
(* operations on two short operands; SpecFold builds one polynomial from a *)
(* long raw list (longer than 2 * M) and applies one operation.            *)

\* The exponents N of the model: M = 2 and M = 4.
RingExps == {1, 2}

\* Raw i64 coefficients handed to Polynomial::new: negative, zero, above P.
RawCoeffs(P) == {-1, 0, P + 2}

\* All sequences over S of length at most n.
SeqUpTo(S, n) == UNION {[1 .. l -> S] : l \in 0 .. n}

InitRingCommon ==
    /\ IdleCoeff /\ IdleRand /\ IdleCkks /\ IdleOps /\ IdleScaled /\ IdleEnc /\ IdleSrv /\ IdleWire /\ IdleExch /\ IdleSeq /\ IdleSel /\ IdleEq /\ IdleDeg /\ IdleCs /\ IdleTrunc /\ IdleNet /\ IdleRem /\ IdleLaw
    /\ build \in {"debug", "release"}
    /\ rP \in Moduli
    /\ rN \in RingExps
    /\ ra = <<>> /\ rb = <<>> /\ rx = <<>> /\ ry = <<>>
    /\ racc = Ok(<<>>) /\ rfold = [raw |-> <<>>, out |-> <<>>]
    /\ rop = "start"

InitRing ==
    /\ InitRingCommon
    /\ rrawA \in SeqUpTo(RawCoeffs(rP), MaxOperandLen)
    /\ rrawB \in SeqUpTo({1, rP - 1}, MaxOperandLen)
    /\ rsteps = 0

InitFold ==
    /\ InitRingCommon
    /\ rrawA \in SeqUpTo(RawCoeffs(rP), MaxRawLen)
    /\ rrawB = <<1, rP - 1>>
    /\ rsteps = MaxSteps - 1

\* Polynomial::new on both raw lists.
PolyNew ==
    /\ rop = "start"
    /\ ra' = Polynomial_new(build, rP, rN, rrawA)
    /\ rb' = Polynomial_new(build, rP, rN, rrawB)
    /\ rfold' = [raw |-> rrawA, out |-> ra']
    /\ rop' = "new"
    /\ UNCHANGED <<build, lawVars, remVars, netVars, truncVars, csVars, degVars, eqVars, selVars, seqVars, exchVars, wireVars, srvVars, encVars, coeffVars, randVars, ckksVars, opsVars, scaledVars, rP, rN, rrawA, rrawB, rx, ry, racc, rsteps>>

\* The polynomials at hand: the two constructed ones and the last result.
PolyOperands == {ra, rb} \cup (IF rop \in {"add", "multiply"} /\ IsOk(racc) THEN {racc.v} ELSE {})

PolyAdd ==
    /\ rop \in {"new", "add", "multiply"} /\ IsOk(racc)
    /\ rsteps < MaxSteps
    /\ \E x, y \in PolyOperands :
          /\ rx' = x /\ ry' = y
          /\ racc' = Ok(Polynomial_add(build, rP, x, y))
    /\ rop' = "add"
    /\ rsteps' = rsteps + 1
    /\ UNCHANGED <<build, lawVars, remVars, netVars, truncVars, csVars, degVars, eqVars, selVars, seqVars, exchVars, wireVars, srvVars, encVars, coeffVars, randVars, ckksVars, opsVars, scaledVars, rP, rN, rrawA, rrawB, ra, rb, rfold>>

PolyMultiply ==
    /\ rop \in {"new", "add", "multiply"} /\ IsOk(racc)
    /\ rsteps < MaxSteps
    /\ \E x, y \in PolyOperands :
          /\ rx' = x /\ ry' = y
          /\ racc' = Polynomial_multiply(build, rP, rN, x, y)
          /\ rfold' = LET raw == Polynomial_multiply_raw(build, rP, x, y)
                      IN IF IsOk(raw) THEN [raw |-> raw.v, out |-> racc'.v] ELSE rfold
    /\ rop' = "multiply"
    /\ rsteps' = rsteps + 1
    /\ UNCHANGED <<build, lawVars, remVars, netVars, truncVars, csVars, degVars, eqVars, selVars, seqVars, exchVars, wireVars, srvVars, encVars, coeffVars, randVars, ckksVars, opsVars, scaledVars, rP, rN, rrawA, rrawB, ra, rb>>

NextRing == PolyNew \/ PolyAdd \/ PolyMultiply

SpecRing == InitRing /\ [][NextRing]_vars

SpecFold == InitFold /\ [][NextRing]_vars

---------------------------------------------------------------------------
(* fhe-core/src/rand.rs, fhe-core/src/rand/distributions.rs.               *)

\* What rand::<T>() can return: any bit pattern of the integer type, or the
\* CSPRNG's error.
RandOutcomes == {Ok(x) : x \in IntMin .. IntMax} \cup {Err}

\* Uniform::sample on the range start..=end, r being the outcome of rand():
\*   let rd = rand::<T>()?;
\*   let modulus = *self.range.end() - *self.range.start();
\*   Ok(rem_euclid(rd, modulus) + *self.range.start())
\* rem_euclid panics on a zero modulus.
Uniform_sample(b, start, end, r) ==
    IF ~IsOk(r) THEN Err
    ELSE LET modulus == Checked(b, end - start)
         IN IF ~IsOk(modulus) \/ modulus.v = 0 THEN Panic
            ELSE Checked(b, rem_euclid(r.v, modulus.v) + start)

---------------------------------------------------------------------------
(* Specification SpecRand: sampling a Uniform over an inclusive range.     *)

\* The inclusive ranges the library and its tests build a Uniform over:
\* -1..=1 (secret key, ephemeral u), 0..=P-1 (public key), 0..=10 (test).
UniformRanges == {<<-1, 1>>, <<0, 10>>} \cup {<<0, P - 1>> : P \in Moduli}

InitRand ==
    /\ IdleCoeff /\ IdleRing /\ IdleCkks /\ IdleOps /\ IdleScaled /\ IdleEnc /\ IdleSrv /\ IdleWire /\ IdleExch /\ IdleSeq /\ IdleSel /\ IdleEq /\ IdleDeg /\ IdleCs /\ IdleTrunc /\ IdleNet /\ IdleRem /\ IdleLaw
    /\ build \in {"debug", "release"}
    /\ \E rg \in UniformRanges : ustart = rg[1] /\ uend = rg[2]
    /\ urd = Ok(0) /\ ures = Ok(0)
    /\ uop = "new"

UniformSample ==
    /\ uop \in {"new", "sample"}
    /\ \E r \in RandOutcomes :
          /\ urd' = r
          /\ ures' = Uniform_sample(build, ustart, uend, r)
    /\ uop' = "sample"
    /\ UNCHANGED <<build, lawVars, remVars, netVars, truncVars, csVars, degVars, eqVars, selVars, seqVars, exchVars, wireVars, srvVars, encVars, coeffVars, ringVars, ckksVars, opsVars, scaledVars, ustart, uend>>

NextRand == UniformSample

SpecRand == InitRand /\ [][NextRand]_vars

---------------------------------------------------------------------------
(* fhe-core/src/f64.rs and ckks-lib/src/polynomial.rs: the scaled i64      *)
(* polynomial [coeffs, scale] that keys and ciphertexts are made of.       *)
(* All values of this part of the model are far inside the i64 range, so   *)
(* its integer arithmetic is exact in either build.                        *)

\* libm::round of the fraction n / d (d > 0): nearest integer, halves away
\* from zero.
RoundDiv(n, d) ==
    IF n >= 0 THEN (2 * n + d) \div (2 * d) ELSE -((2 * (-n) + d) \div (2 * d))

\* i64 division: truncates toward zero.
TruncDiv(a, b) ==
    IF (a >= 0) = (b > 0) THEN Abs(a) \div Abs(b) ELSE -(Abs(a) \div Abs(b))

\* i64 remainder (%): the sign follows the dividend.
TruncRem(a, b) == a - b * TruncDiv(a, b)

CkksPoly_new(coeffs, scale) == [coeffs |-> coeffs, scale |-> scale]

\* Polynomial::add: the operand of the lower scale is scaled up to the
\* higher one; the result carries the higher scale.
CkksPoly_add(x, y) ==
    CkksPoly_new(
        [i \in 1 .. Max(Len(x.coeffs), Len(y.coeffs)) |->
            LET a == GetOr0(x.coeffs, i)
                b == GetOr0(y.coeffs, i)
            IN IF x.scale >= y.scale
               THEN a + RoundDiv(b * x.scale, y.scale)
               ELSE RoundDiv(a * y.scale, x.scale) + b],
        Max(x.scale, y.scale))

\* Sum over i of x[i] * y[k - i] (positions from 0): coefficient k of the
\* schoolbook product, accumulated over the first n coefficients of x.
RECURSIVE CkksConvAt(_, _, _, _)
CkksConvAt(x, y, k, n) ==
    IF n = 0 THEN 0
    ELSE LET j == k - (n - 1)
         IN CkksConvAt(x, y, k, n - 1)
              + (IF j < 0 \/ j >= Len(y) THEN 0 ELSE x[n] * y[j + 1])

\* Polynomial::multiply: schoolbook product of length len + len - 1 (a
\* usize: it underflows, and panics, for two empty operands), not reduced.
CkksPoly_multiply(x, y) ==
    IF Len(x.coeffs) + Len(y.coeffs) = 0 THEN Panic
    ELSE Ok(CkksPoly_new(
            [k \in 1 .. (Len(x.coeffs) + Len(y.coeffs) - 1) |->
                CkksConvAt(x.coeffs, y.coeffs, k - 1, Len(x.coeffs))],
            x.scale * y.scale))

\* Polynomial::multiply_coeff: coefficient by coefficient over the common
\* length (zip), each product divided by the lower scale and rounded.
CkksPoly_multiply_coeff(x, y) ==
    CkksPoly_new(
        [i \in 1 .. Min(Len(x.coeffs), Len(y.coeffs)) |->
            RoundDiv(x.coeffs[i] * y.coeffs[i], Min(x.scale, y.scale))],
        Max(x.scale, y.scale))

\* compute_degree of Polynomial::rem: the length once trailing zeros are cut.
RECURSIVE compute_degree(_)
compute_degree(c) ==
    IF Len(c) = 0 THEN 0
    ELSE IF c[Len(c)] = 0 THEN compute_degree(SubSeq(c, 1, Len(c) - 1))
    ELSE Len(c)

\* The while loop of Polynomial::rem on the working copy sc.
RECURSIVE RemLoop(_, _)
RemLoop(sc, rhs) ==
    LET self_degree == compute_degree(sc)
        rhs_degree == compute_degree(rhs)
    IN IF self_degree < rhs_degree THEN Ok(sc)
       ELSE IF rhs_degree = 0 THEN Panic    \* self_coeffs[self_degree - 1] / rhs.coeffs()[0 - 1]
       ELSE LET shift == self_degree - rhs_degree
                factor == TruncDiv(sc[self_degree], rhs[rhs_degree])
                sub == [i \in 1 .. Len(sc) |->
                          IF shift < i /\ i <= shift + rhs_degree
                          THEN sc[i] - rhs[i - shift] * factor
                          ELSE sc[i]]
            IN RemLoop([sub EXCEPT ![self_degree] = 0], rhs)

\* Polynomial::rem: remainder of the long division of x by rhs.
CkksPoly_rem(x, rhs) ==
    LET r == RemLoop(x.coeffs, rhs.coeffs)
    IN IF IsOk(r) THEN Ok(CkksPoly_new(r.v, x.scale)) ELSE Panic

\* Polynomial::cyclotomic(degree): X^degree + 1 at scale 1.0.
CkksPoly_cyclotomic(degree) ==
    CkksPoly_new([i \in 1 .. (degree + 1) |-> IF i = 1 \/ i = degree + 1 THEN 1 ELSE 0], 1)

\* Polynomial::mod_reduce: every coefficient % modulus, and the coefficients
\* that became 0 are filtered out of the vector.
CkksPoly_mod_reduce(x, modulus) ==
    CkksPoly_new(
        SelectSeq([i \in 1 .. Len(x.coeffs) |-> TruncRem(x.coeffs[i], modulus)],
                  LAMBDA c : c # 0),
        x.scale)

\* Polynomial::encode: round(x * scale); plaintexts are in thousandths.
CkksPoly_encode(plaintext, scale) ==
    CkksPoly_new([i \in 1 .. Len(plaintext) |-> RoundDiv(plaintext[i] * scale, 1000)], scale)

\* Polynomial::decode: c / scale rounded to DECIMAL_PLACES = 3 decimals,
\* returned in thousandths (a value below the threshold 1e-10 is 0).
CkksPoly_decode(x) ==
    [i \in 1 .. Len(x.coeffs) |-> RoundDiv(x.coeffs[i] * 1000, x.scale)]

---------------------------------------------------------------------------
(* ckks-lib/src/key.rs and ckks-lib/src/cipher.rs.                         *)

\* Raw integers rand::<i64>() returns in the runs of the model, or its error.
RawSamples == {Ok(0), Ok(1), Err}

\* round(t.sample()) for t = Truncated(Gaussian(mu, sigma), -beta..=beta):
\* an integer of magnitude at most beta (the model draws -1, 0, 1), or the error.
NoiseSamples == {Ok(-1), Ok(0), Ok(1), Err}

AllOk(os) == \A i \in DOMAIN os : IsOk(os[i])
Values(os) == [i \in DOMAIN os |-> os[i].v]
Negated(c) == [i \in DOMAIN c |-> -c[i]]

\* The coefficients of p0 in generate_keys: -r * sk + round(e), zipped over
\* the coefficients of the secret key and of p1.
KeyP0(sk, p1, e) == [i \in 1 .. Min(Len(sk), Len(p1)) |-> (-p1[i]) * sk[i] + e[i]]

\* Encryptor::encrypt: c0 = p0 (*) u + e1 + encoded, c1 = p1 (*) u + e2,
\* (*) being multiply_coeff.
Encrypt(pk, plaintext, scale, u, e1, e2) ==
    LET encoded == CkksPoly_encode(plaintext, scale)
        pu == CkksPoly_new(u, 1)
        c0 == CkksPoly_add(
                  CkksPoly_add(CkksPoly_multiply_coeff(pk.p0, pu), CkksPoly_new(e1, 1)),
                  encoded)
        c1 == CkksPoly_add(CkksPoly_multiply_coeff(pk.p1, pu), CkksPoly_new(e2, 1))
    IN [c0 |-> c0, c1 |-> c1]

\* Decryptor::decrypt: decode(c0 + rem(multiply(c1, s), cyclotomic(degree))).
Decrypt(sk, degree, c) ==
    LET c1sk_raw == CkksPoly_multiply(c.c1, sk)
    IN IF ~IsOk(c1sk_raw) THEN Panic
       ELSE LET c1sk == CkksPoly_rem(c1sk_raw.v, CkksPoly_cyclotomic(degree))
            IN IF ~IsOk(c1sk) THEN Panic
               ELSE Ok(CkksPoly_decode(CkksPoly_add(c.c0, c1sk.v)))

---------------------------------------------------------------------------
(* Specification SpecCkks: generate_keys, then encrypt, then decrypt.      *)

\* Config::new(degree, modulus, TC128): degree a power of two, beta = 19.
Configs == {[degree |-> 2, modulus |-> 10007, beta |-> 19]}

\* Plaintext vectors (thousandths: 1.0 and 0.0, 1.0) and scales handed to
\* encrypt.  With these scales, degree 2 and noise of magnitude at most 1,
\* the noise of a ciphertext is below 1e-2 of the scale.
Plaintexts == {<<1000>>, <<0, 1000>>}
Scales == {1000, 4000}

\* No operation of this specification leaves the i64 range, so the two
\* builds behave alike; the release build is taken.
InitCkks ==
    /\ IdleCoeff /\ IdleRing /\ IdleRand /\ IdleOps /\ IdleScaled /\ IdleEnc /\ IdleSrv /\ IdleWire /\ IdleExch /\ IdleSeq /\ IdleSel /\ IdleEq /\ IdleDeg /\ IdleCs /\ IdleTrunc /\ IdleNet /\ IdleRem /\ IdleLaw
    /\ build = "release"
    /\ cfg \in Configs
    /\ skey = EmptyPoly /\ pkey = [p0 |-> EmptyPoly, p1 |-> EmptyPoly] /\ kerr = <<>>
    /\ pt = <<>> /\ pscale = 1 /\ erand = [u |-> <<>>, e1 |-> <<>>, e2 |-> <<>>]
    /\ ct = [c0 |-> EmptyPoly, c1 |-> EmptyPoly] /\ dec = <<>>
    /\ kpc = "config"

\* generate_keys(config): every sample is unwrapped, so a CSPRNG error panics.
GenerateKeys ==
    /\ kpc = "config"
    /\ \E rs, rp \in [1 .. cfg.degree -> RawSamples], re \in [1 .. cfg.degree -> NoiseSamples] :
          LET s == [i \in 1 .. cfg.degree |-> Uniform_sample(build, -1, 1, rs[i])]
              p1 == [i \in 1 .. cfg.degree |-> Uniform_sample(build, 0, cfg.modulus - 1, rp[i])]
          IN IF AllOk(s) /\ AllOk(p1) /\ AllOk(re)
             THEN /\ skey' = CkksPoly_new(Values(s), 1)
                  /\ pkey' = [p0 |-> CkksPoly_new(KeyP0(Values(s), Values(p1), Values(re)), 1),
                              p1 |-> CkksPoly_new(Values(p1), 1)]
                  /\ kerr' = Values(re)
                  /\ kpc' = "keys"
             ELSE /\ kpc' = "panicked"
                  /\ UNCHANGED <<skey, pkey, kerr>>
    /\ UNCHANGED <<build, lawVars, remVars, netVars, truncVars, csVars, degVars, eqVars, selVars, seqVars, exchVars, wireVars, srvVars, encVars, coeffVars, ringVars, randVars, opsVars, scaledVars, cfg, pt, pscale, erand, ct, dec>>

\* Encryptor::encrypt(plaintext, scale), scale > 0.
EncryptAction ==
    /\ kpc = "keys"
    /\ \E v \in Plaintexts, sc \in Scales,
          ru \in [1 .. cfg.degree -> RawSamples],
          r1, r2 \in [1 .. cfg.degree -> NoiseSamples] :
          LET u == [i \in 1 .. cfg.degree |-> Uniform_sample(build, -1, 1, ru[i])]
          IN /\ pt' = v /\ pscale' = sc
             /\ IF AllOk(u) /\ AllOk(r1) /\ AllOk(r2)
                THEN /\ erand' = [u |-> Values(u), e1 |-> Values(r1), e2 |-> Values(r2)]
                     /\ ct' = Encrypt(pkey, v, sc, Values(u), Values(r1), Values(r2))
                     /\ kpc' = "encrypted"
                ELSE /\ kpc' = "panicked"
                     /\ UNCHANGED <<erand, ct>>
    /\ UNCHANGED <<build, lawVars, remVars, netVars, truncVars, csVars, degVars, eqVars, selVars, seqVars, exchVars, wireVars, srvVars, encVars, coeffVars, ringVars, randVars, opsVars, scaledVars, cfg, skey, pkey, kerr, dec>>

\* Decryptor::decrypt(ciphertext).
DecryptAction ==
    /\ kpc = "encrypted"
    /\ LET d == Decrypt(skey, cfg.degree, ct)
       IN IF IsOk(d) THEN dec' = d.v /\ kpc' = "decrypted"
          ELSE dec' = dec /\ kpc' = "panicked"
    /\ UNCHANGED <<build, lawVars, remVars, netVars, truncVars, csVars, degVars, eqVars, selVars, seqVars, exchVars, wireVars, srvVars, encVars, coeffVars, ringVars, randVars, opsVars, scaledVars, cfg, skey, pkey, kerr, pt, pscale, erand, ct>>

NextCkks == GenerateKeys \/ EncryptAction \/ DecryptAction

SpecCkks == InitCkks /\ [][NextCkks]_vars

---------------------------------------------------------------------------
(* ckks-lib/src/ops.rs: homomorphic addition.                              *)

\* Encryptor::homomorphic_add: Polynomial::add of the two ciphertext
\* polynomials, then Polynomial::mod_reduce by the configured modulus.
homomorphic_add(modulus, lhs, rhs) ==
    CkksPoly_mod_reduce(CkksPoly_add(lhs, rhs), modulus)

\* Coefficients of the ciphertext polynomials of the model (ciphertext
\* coefficients are unreduced i64 values).
CtCoeffs == {-1, 0, 3, 4}

InitOps ==
    /\ IdleCoeff /\ IdleRing /\ IdleRand /\ IdleCkks /\ IdleScaled /\ IdleEnc /\ IdleSrv /\ IdleWire /\ IdleExch /\ IdleSeq /\ IdleSel /\ IdleEq /\ IdleDeg /\ IdleCs /\ IdleTrunc /\ IdleNet /\ IdleRem /\ IdleLaw
    /\ build = "release"
    /\ hmod \in {7}
    /\ \E sc \in Scales, a, b \in SeqUpTo(CtCoeffs, MaxCtLen) :
          /\ hlhs = CkksPoly_new(a, sc)
          /\ hrhs = CkksPoly_new(b, sc)
    /\ hres = EmptyPoly
    /\ hop = "start"

HomomorphicAdd ==
    /\ hop = "start"
    /\ hres' = homomorphic_add(hmod, hlhs, hrhs)
    /\ hop' = "add"
    /\ UNCHANGED <<build, lawVars, remVars, netVars, truncVars, csVars, degVars, eqVars, selVars, seqVars, exchVars, wireVars, srvVars, encVars, coeffVars, ringVars, randVars, ckksVars, scaledVars, hmod, hlhs, hrhs>>

NextOps == HomomorphicAdd

SpecOps == InitOps /\ [][NextOps]_vars

---------------------------------------------------------------------------
(* ckks-lib/src/cipher/scaled.rs: ScaledPolynomial<P, N>, a ring           *)
(* polynomial [p, scale].                                                  *)

\* A mutant of ScaledPolynomial::add that aligns to the higher scale, as
\* Polynomial::add of ckks-lib/src/polynomial.rs does.
ScaledPolynomial_add_up(b, P, N, lhs, rhs) ==
    [p |-> Polynomial_new(b, P, N,
              [i \in 1 .. Max(Len(lhs.p), Len(rhs.p)) |->
                  LET l == GetOr0(lhs.p, i)
                      r == GetOr0(rhs.p, i)
                  IN IF lhs.scale >= rhs.scale
                     THEN l + RoundDiv(r * lhs.scale, rhs.scale)
                     ELSE RoundDiv(l * rhs.scale, lhs.scale) + r]),
     scale |-> Max(lhs.scale, rhs.scale)]

\* ScaledPolynomial::add: the operand of the higher scale is multiplied by
\* (lower scale / higher scale) and rounded, the other is added as it is;
\* Polynomial::new reduces and folds; the result carries the lower scale.
ScaledPolynomial_add(b, P, N, lhs, rhs) ==
    [p |-> Polynomial_new(b, P, N,
              [i \in 1 .. Max(Len(lhs.p), Len(rhs.p)) |->
                  LET l == GetOr0(lhs.p, i)
                      r == GetOr0(rhs.p, i)
                  IN IF lhs.scale >= rhs.scale
                     THEN RoundDiv(l * rhs.scale, lhs.scale) + r
                     ELSE l + RoundDiv(r * lhs.scale, rhs.scale)]),
     scale |-> Min(lhs.scale, rhs.scale)]

\* Raw coefficients the operands are built from (ScaledPolynomial::new on
\* Polynomial::new(coeffs)), and their scales.
ScaledRaw(P) == {0, 1, 3, P - 1}
ScaledScales == {1, 2, 4}

InitScaled ==
    /\ IdleCoeff /\ IdleRing /\ IdleRand /\ IdleCkks /\ IdleOps /\ IdleEnc /\ IdleSrv /\ IdleWire /\ IdleExch /\ IdleSeq /\ IdleSel /\ IdleEq /\ IdleDeg /\ IdleCs /\ IdleTrunc /\ IdleNet /\ IdleRem /\ IdleLaw
    /\ build \in {"debug", "release"}
    /\ sP \in Moduli
    /\ sN = 1
    /\ \E a, b \in SeqUpTo(ScaledRaw(sP), MaxScaledLen), sa, sb \in ScaledScales :
          /\ slhs = [p |-> Polynomial_new(build, sP, sN, a), scale |-> sa]
          /\ srhs = [p |-> Polynomial_new(build, sP, sN, b), scale |-> sb]
    /\ sres = EmptyScaled
    /\ sop = "start"

ScaledAdd ==
    /\ sop = "start"
    /\ sres' = ScaledPolynomial_add(build, sP, sN, slhs, srhs)
    /\ sop' = "add"
    /\ UNCHANGED <<build, lawVars, remVars, netVars, truncVars, csVars, degVars, eqVars, selVars, seqVars, exchVars, wireVars, srvVars, encVars, coeffVars, ringVars, randVars, ckksVars, opsVars, sP, sN, slhs, srhs>>

NextScaled == ScaledAdd

SpecScaled == InitScaled /\ [][NextScaled]_vars

---------------------------------------------------------------------------
(* ckks-lib/src/cipher/scaled.rs: ScaledPolynomial::encode and decode.     *)
(* Plaintexts are in thousandths (1000 = 1.0).                             *)

\* ScaledPolynomial::encode: round(x * scale) for every plaintext, then
\* Polynomial::new (reduction into [0, P) and fold).
ScaledPolynomial_encode(b, P, N, p, scale) ==
    [p |-> Polynomial_new(b, P, N, [i \in 1 .. Len(p) |-> RoundDiv(p[i] * scale, 1000)]),
     scale |-> scale]

\* ScaledPolynomial::decode: c.as_i64() / scale, rounded to DECIMAL_PLACES
\* = 3 decimals (a result below the threshold 1e-10 is 0.0).
ScaledPolynomial_decode(x) ==
    [i \in 1 .. Len(x.p) |-> RoundDiv(x.p[i] * 1000, x.scale)]

\* Plaintext entries (thousandths) and scales handed to encode; with these
\* scales every entry times the scale is an integer.
EncPlain == {-3, -1, 0, 2, 3}
EncScales == {1000, 2000}

InitEnc ==
    /\ IdleCoeff /\ IdleRing /\ IdleRand /\ IdleCkks /\ IdleOps /\ IdleScaled /\ IdleSrv /\ IdleWire /\ IdleExch /\ IdleSeq /\ IdleSel /\ IdleEq /\ IdleDeg /\ IdleCs /\ IdleTrunc /\ IdleNet /\ IdleRem /\ IdleLaw
    /\ build \in {"debug", "release"}
    /\ eP \in Moduli
    /\ eN = 1
    /\ ev \in SeqUpTo(EncPlain, MaxEncLen)
    /\ escale \in EncScales
    /\ epoly = EmptyScaled /\ edec = <<>>
    /\ eop = "start"

ScaledEncode ==
    /\ eop = "start"
    /\ epoly' = ScaledPolynomial_encode(build, eP, eN, ev, escale)
    /\ eop' = "encoded"
    /\ UNCHANGED <<build, lawVars, remVars, netVars, truncVars, csVars, degVars, eqVars, selVars, seqVars, exchVars, wireVars, srvVars, coeffVars, ringVars, randVars, ckksVars, opsVars, scaledVars,
                   eP, eN, ev, escale, edec>>

ScaledDecode ==
    /\ eop = "encoded"
    /\ edec' = ScaledPolynomial_decode(epoly)
    /\ eop' = "decoded"
    /\ UNCHANGED <<build, lawVars, remVars, netVars, truncVars, csVars, degVars, eqVars, selVars, seqVars, exchVars, wireVars, srvVars, coeffVars, ringVars, randVars, ckksVars, opsVars, scaledVars,
                   eP, eN, ev, escale, epoly>>

NextEnc == ScaledEncode \/ ScaledDecode

SpecEnc == InitEnc /\ [][NextEnc]_vars

---------------------------------------------------------------------------
(* src/server.rs: handle_client.  Ciphertexts are identified with the      *)
(* plaintext they hold.                                                    *)

\* SealBfvCS::operate2: homomorphic Add or Mul of two ciphertexts.
operate2(op, lhs, rhs) == IF op = "Add" THEN lhs + rhs ELSE lhs * rhs

\* SeqOpItem::new(lhs, rhs, operation).
SeqOpItem_new(lhs, rhs, op) == [lhs |-> lhs, rhs |-> rhs, op |-> op]

\* Items of the batches of the model.
BatchItems == {SeqOpItem_new(l, 3, op) : l \in {2, 3}, op \in {"Add", "Mul"}}

Workers == 1 .. NumWorkers

\* collect::<Vec<_>>() of the parallel iterator: the vectors of the workers
\* are concatenated in the order of the workers.
RECURSIVE ConcatLocals(_, _)
ConcatLocals(loc, n) == IF n = 0 THEN <<>> ELSE ConcatLocals(loc, n - 1) \o loc[n]

InitSrv ==
    /\ IdleCoeff /\ IdleRing /\ IdleRand /\ IdleCkks /\ IdleOps /\ IdleScaled /\ IdleEnc /\ IdleWire /\ IdleExch /\ IdleSeq /\ IdleSel /\ IdleEq /\ IdleDeg /\ IdleCs /\ IdleTrunc /\ IdleNet /\ IdleRem /\ IdleLaw
    /\ build = "release"
    /\ bitems \in SeqUpTo(BatchItems, MaxBatch)
    /\ bstage = "listen"
    /\ bnext = 0
    /\ bhold = [w \in Workers |-> 0]
    /\ blocal = [w \in Workers |-> <<>>]
    /\ bsent = <<>>

\* unsized_data_recv and decode_from_slice_with_context: either may fail,
\* and then handle_client logs and returns.
ServerReceive ==
    /\ bstage = "listen"
    /\ bstage' \in {"recv_failed", "decode_failed", "decoded"}
    /\ UNCHANGED <<build, lawVars, remVars, netVars, truncVars, csVars, degVars, eqVars, selVars, seqVars, exchVars, wireVars, coeffVars, ringVars, randVars, ckksVars, opsVars, scaledVars, encVars,
                   bitems, bnext, bhold, blocal, bsent>>

\* A worker takes the next item of iter_over_data() from the bridge.
WorkerTake(w) ==
    /\ bstage = "decoded"
    /\ bhold[w] = 0
    /\ bnext < Len(bitems)
    /\ bnext' = bnext + 1
    /\ bhold' = [bhold EXCEPT ![w] = bnext + 1]
    /\ UNCHANGED <<build, lawVars, remVars, netVars, truncVars, csVars, degVars, eqVars, selVars, seqVars, exchVars, wireVars, coeffVars, ringVars, randVars, ckksVars, opsVars, scaledVars, encVars,
                   bitems, bstage, blocal, bsent>>

\* The worker maps its item through operate2 and keeps the result.
WorkerOperate(w) ==
    /\ bstage = "decoded"
    /\ bhold[w] # 0
    /\ LET item == bitems[bhold[w]]
       IN blocal' = [blocal EXCEPT ![w] = Append(@, operate2(item.op, item.lhs, item.rhs))]
    /\ bhold' = [bhold EXCEPT ![w] = 0]
    /\ UNCHANGED <<build, lawVars, remVars, netVars, truncVars, csVars, degVars, eqVars, selVars, seqVars, exchVars, wireVars, coeffVars, ringVars, randVars, ckksVars, opsVars, scaledVars, encVars,
                   bitems, bstage, bnext, bsent>>

\* Every item is processed: the results are collected, encoded and sent;
\* a failure of unsized_data_send is logged.
ServerSend ==
    /\ bstage = "decoded"
    /\ bnext = Len(bitems)
    /\ \A w \in Workers : bhold[w] = 0
    /\ bsent' = ConcatLocals(blocal, NumWorkers)
    /\ bstage' \in {"sent", "send_failed"}
    /\ UNCHANGED <<build, lawVars, remVars, netVars, truncVars, csVars, degVars, eqVars, selVars, seqVars, exchVars, wireVars, coeffVars, ringVars, randVars, ckksVars, opsVars, scaledVars, encVars,
                   bitems, bnext, bhold, blocal>>

NextSrv ==
    \/ ServerReceive
    \/ \E w \in Workers : WorkerTake(w)
    \/ \E w \in Workers : WorkerOperate(w)
    \/ ServerSend

SpecSrv == InitSrv /\ [][NextSrv]_vars

---------------------------------------------------------------------------
(* fhe-operations/src/single_ops.rs (and the same code in                  *)
(* fhe-exchange/src/lib.rs): the bincode encoding of a batch.  The wire is *)
(* a sequence of words; a length or an enum variant index is one word.     *)
(* A ciphertext is the byte vector as_bytes() returns, and from_bytes with *)
(* the matching context gives back the ciphertext of those bytes, or an    *)
(* error for bytes that are no ciphertext of the context.                  *)

\* Result of a decoder: the value read and the words that follow it.
Read(v, rest) == Ok([v |-> v, rest |-> rest])

\* impl Encode for Ciphertext: the byte vector, length first.
Ciphertext_encode(c) == <<Len(c)>> \o c

\* sealy::Ciphertext::from_bytes: the bytes 0, 1 and 2 of the model make up
\* serialized ciphertexts of the context, any other byte does not.
Ciphertext_from_bytes(raw) ==
    IF \E i \in DOMAIN raw : raw[i] > 2 THEN Err ELSE Ok(raw)

\* impl Decode for Ciphertext: a byte vector, length first (`?` on a short
\* input), then from_bytes(..).unwrap().
Ciphertext_decode(w) ==
    IF Len(w) = 0 THEN Err
    ELSE IF Len(w) < 1 + w[1] THEN Err
    ELSE LET c == Ciphertext_from_bytes(SubSeq(w, 2, 1 + w[1]))
         IN IF IsOk(c) THEN Read(c.v, SubSeq(w, 2 + w[1], Len(w))) ELSE Panic

\* derive(Encode) for the Operation2 enum: the variant index.
Operation2_encode(op) == IF op = "Add" THEN <<0>> ELSE <<1>>

\* derive(Decode) for the Operation2 enum: an unknown variant is an error.
Operation2_decode(w) ==
    IF Len(w) = 0 THEN Err
    ELSE IF w[1] = 0 THEN Read("Add", Tail(w))
    ELSE IF w[1] = 1 THEN Read("Mul", Tail(w))
    ELSE Err

\* impl Encode for SeqOpItem: lhs, rhs, operation.
SeqOpItem_encode(item) ==
    Ciphertext_encode(item.lhs) \o Ciphertext_encode(item.rhs) \o Operation2_encode(item.op)

\* A mutant of the item decoder that reads rhs before lhs.
SeqOpItem_decode_swapped(w) ==
    LET r == Ciphertext_decode(w)
    IN IF ~IsOk(r) THEN r
       ELSE LET l == Ciphertext_decode(r.v.rest)
            IN IF ~IsOk(l) THEN l
               ELSE LET o == Operation2_decode(l.v.rest)
                    IN IF ~IsOk(o) THEN o
                       ELSE Read(SeqOpItem_new(l.v.v, r.v.v, o.v.v), o.v.rest)

\* impl Decode for SeqOpItem: lhs, rhs, operation, each `?`-propagated (a
\* panic of a field's decoder unwinds through it).
SeqOpItem_decode(w) ==
    LET l == Ciphertext_decode(w)
    IN IF ~IsOk(l) THEN l
       ELSE LET r == Ciphertext_decode(l.v.rest)
            IN IF ~IsOk(r) THEN r
               ELSE LET o == Operation2_decode(r.v.rest)
                    IN IF ~IsOk(o) THEN o
                       ELSE Read(SeqOpItem_new(l.v.v, r.v.v, o.v.v), o.v.rest)

\* Vec<SeqOpItem>::encode after the length: the items in order.
RECURSIVE EncodeItems(_, _)
EncodeItems(items, n) ==
    IF n = 0 THEN <<>> ELSE EncodeItems(items, n - 1) \o SeqOpItem_encode(items[n])

\* impl Encode for SeqOpsData: the inner Vec, length first.
SeqOpsData_encode(data) == <<Len(data)>> \o EncodeItems(data, Len(data))

\* Vec<SeqOpItem>::decode after the length: n items read one after the other.
RECURSIVE DecodeItems(_, _, _)
DecodeItems(w, n, acc) ==
    IF n = 0 THEN Read(acc, w)
    ELSE LET it == SeqOpItem_decode(w)
         IN IF ~IsOk(it) THEN it ELSE DecodeItems(it.v.rest, n - 1, Append(acc, it.v.v))

\* impl Decode for SeqOpsData (decode_from_slice returns the value read).
SeqOpsData_decode(w) ==
    IF Len(w) = 0 THEN Err
    ELSE LET r == DecodeItems(Tail(w), w[1], <<>>)
         IN IF IsOk(r) THEN Ok(r.v.v) ELSE r

\* Byte vectors of the ciphertexts of the model, and the items built on them.
WireCiphertexts == {<<>>, <<0>>, <<1, 0>>}
WireItems == {SeqOpItem_new(l, r, op) : l, r \in WireCiphertexts, op \in {"Add", "Mul"}}

InitWire ==
    /\ IdleCoeff /\ IdleRing /\ IdleRand /\ IdleCkks /\ IdleOps /\ IdleScaled /\ IdleEnc /\ IdleSrv /\ IdleExch /\ IdleSeq /\ IdleSel /\ IdleEq /\ IdleDeg /\ IdleCs /\ IdleTrunc /\ IdleNet /\ IdleRem /\ IdleLaw
    /\ build = "release"
    /\ wbatch \in SeqUpTo(WireItems, MaxWireBatch)
    /\ wbytes = <<>>
    /\ wdec = Err
    /\ wop = "start"

\* bincode::encode_to_vec(batch, config).
WireEncode ==
    /\ wop = "start"
    /\ wbytes' = SeqOpsData_encode(wbatch)
    /\ wop' = "encoded"
    /\ UNCHANGED <<build, lawVars, remVars, netVars, truncVars, csVars, degVars, eqVars, selVars, seqVars, exchVars, coeffVars, ringVars, randVars, ckksVars, opsVars, scaledVars, encVars,
                   srvVars, wbatch, wdec>>

\* bincode::decode_from_slice_with_context(bytes, config, context).
WireDecode ==
    /\ wop = "encoded"
    /\ wdec' = SeqOpsData_decode(wbytes)
    /\ wop' = "decoded"
    /\ UNCHANGED <<build, lawVars, remVars, netVars, truncVars, csVars, degVars, eqVars, selVars, seqVars, exchVars, coeffVars, ringVars, randVars, ckksVars, opsVars, scaledVars, encVars,
                   srvVars, wbatch, wbytes>>

NextWire == WireEncode \/ WireDecode

SpecWire == InitWire /\ [][NextWire]_vars

---------------------------------------------------------------------------
(* src/exchange.rs: ExchangeData, three parallel vectors.                  *)

\* Option<CiphertextHandle>.
None == [some |-> FALSE, v |-> <<>>]
Some(c) == [some |-> TRUE, v |-> c]

\* ExchangeData::new: the three vectors are stored as they are given.
ExchangeData_new(lhs, rhs, operation) == [lhs |-> lhs, rhs |-> rhs, operation |-> operation]

\* ExchangeData::len: two assert_eq! on the lengths, then lhs.len().
ExchangeData_len(d) ==
    IF Len(d.lhs) # Len(d.rhs) THEN Panic
    ELSE IF Len(d.lhs) # Len(d.operation) THEN Panic
    ELSE Ok(Len(d.lhs))

\* ExchangeData::iter_over_data: lhs zipped with rhs zipped with operation;
\* a zip ends with its shortest side.
ExchangeData_iter_over_data(d) ==
    [k \in 1 .. Min(Min(Len(d.lhs), Len(d.rhs)), Len(d.operation)) |->
        <<d.lhs[k], d.rhs[k], d.operation[k]>>]

\* Vec<CiphertextHandle>::decode after the length.
RECURSIVE DecodeHandles(_, _, _)
DecodeHandles(w, n, acc) ==
    IF n = 0 THEN Read(acc, w)
    ELSE LET c == Ciphertext_decode(w)
         IN IF ~IsOk(c) THEN c ELSE DecodeHandles(c.v.rest, n - 1, Append(acc, c.v.v))

\* Option<CiphertextHandle>::decode: 0 is None, 1 is Some followed by the value.
OptionHandle_decode(w) ==
    IF Len(w) = 0 THEN Err
    ELSE IF w[1] = 0 THEN Read(None, Tail(w))
    ELSE IF w[1] = 1
         THEN LET c == Ciphertext_decode(Tail(w))
              IN IF IsOk(c) THEN Read(Some(c.v.v), c.v.rest) ELSE c
    ELSE Err

\* Vec<Option<CiphertextHandle>>::decode after the length.
RECURSIVE DecodeOptHandles(_, _, _)
DecodeOptHandles(w, n, acc) ==
    IF n = 0 THEN Read(acc, w)
    ELSE LET c == OptionHandle_decode(w)
         IN IF ~IsOk(c) THEN c ELSE DecodeOptHandles(c.v.rest, n - 1, Append(acc, c.v.v))

\* Vec<Operation>::decode after the length.
RECURSIVE DecodeOperations(_, _, _)
DecodeOperations(w, n, acc) ==
    IF n = 0 THEN Read(acc, w)
    ELSE LET c == Operation2_decode(w)
         IN IF ~IsOk(c) THEN c ELSE DecodeOperations(c.v.rest, n - 1, Append(acc, c.v.v))

\* impl Decode for ExchangeData: the three vectors one after the other,
\* each with its own length; the lengths are not compared.
ExchangeData_decode(w) ==
    IF Len(w) = 0 THEN Err
    ELSE LET l == DecodeHandles(Tail(w), w[1], <<>>)
         IN IF ~IsOk(l) THEN l
            ELSE IF Len(l.v.rest) = 0 THEN Err
            ELSE LET r == DecodeOptHandles(Tail(l.v.rest), l.v.rest[1], <<>>)
                 IN IF ~IsOk(r) THEN r
                    ELSE IF Len(r.v.rest) = 0 THEN Err
                    ELSE LET o == DecodeOperations(Tail(r.v.rest), r.v.rest[1], <<>>)
                         IN IF ~IsOk(o) THEN o
                            ELSE Ok(ExchangeData_new(l.v.v, r.v.v, o.v.v))

\* Values handed to ExchangeData::new and words received from a peer.
ExchHandles == {<<>>, <<1>>}
ExchOptions == {None, Some(<<1>>)}
ExchOperations == {"Add", "Mul"}
ExchWords == {0, 1, 2}

InitExch ==
    /\ IdleCoeff /\ IdleRing /\ IdleRand /\ IdleCkks /\ IdleOps /\ IdleScaled /\ IdleEnc /\ IdleSrv /\ IdleWire /\ IdleSeq /\ IdleSel /\ IdleEq /\ IdleDeg /\ IdleCs /\ IdleTrunc /\ IdleNet /\ IdleRem /\ IdleLaw
    /\ build = "release"
    /\ xlhs = <<>> /\ xrhs = <<>> /\ xops = <<>> /\ xiter = <<>> /\ xlen = Ok(0)
    /\ xstage = "start"

\* ExchangeData::new(lhs, rhs, operation).
ExchNew ==
    /\ xstage = "start"
    /\ \E l \in SeqUpTo(ExchHandles, MaxExchLen), r \in SeqUpTo(ExchOptions, MaxExchLen),
          o \in SeqUpTo(ExchOperations, MaxExchLen) :
          LET d == ExchangeData_new(l, r, o)
          IN xlhs' = d.lhs /\ xrhs' = d.rhs /\ xops' = d.operation
    /\ xstage' = "built"
    /\ UNCHANGED <<build, lawVars, remVars, netVars, truncVars, csVars, degVars, eqVars, selVars, seqVars, coeffVars, ringVars, randVars, ckksVars, opsVars, scaledVars, encVars,
                   srvVars, wireVars, xiter, xlen>>

\* bincode::decode_from_slice_with_context of bytes received from a peer.
ExchDecode ==
    /\ xstage = "start"
    /\ \E w \in SeqUpTo(ExchWords, MaxExchWire) :
          LET d == ExchangeData_decode(w)
          IN IF IsOk(d)
             THEN /\ xlhs' = d.v.lhs /\ xrhs' = d.v.rhs /\ xops' = d.v.operation
                  /\ xstage' = "built"
             ELSE /\ UNCHANGED <<xlhs, xrhs, xops>>
                  /\ xstage' = "decode_failed"
    /\ UNCHANGED <<build, lawVars, remVars, netVars, truncVars, csVars, degVars, eqVars, selVars, seqVars, coeffVars, ringVars, randVars, ckksVars, opsVars, scaledVars, encVars,
                   srvVars, wireVars, xiter, xlen>>

\* iter_over_data().collect().
ExchIter ==
    /\ xstage = "built"
    /\ xiter' = ExchangeData_iter_over_data(ExchangeData_new(xlhs, xrhs, xops))
    /\ xstage' = "iterated"
    /\ UNCHANGED <<build, lawVars, remVars, netVars, truncVars, csVars, degVars, eqVars, selVars, seqVars, coeffVars, ringVars, randVars, ckksVars, opsVars, scaledVars, encVars,
                   srvVars, wireVars, xlhs, xrhs, xops, xlen>>

\* len().
ExchLen ==
    /\ xstage = "iterated"
    /\ xlen' = ExchangeData_len(ExchangeData_new(xlhs, xrhs, xops))
    /\ xstage' = IF IsOk(xlen') THEN "measured" ELSE "panicked"
    /\ UNCHANGED <<build, lawVars, remVars, netVars, truncVars, csVars, degVars, eqVars, selVars, seqVars, coeffVars, ringVars, randVars, ckksVars, opsVars, scaledVars, encVars,
                   srvVars, wireVars, xlhs, xrhs, xops, xiter>>

NextExch == ExchNew \/ ExchDecode \/ ExchIter \/ ExchLen

SpecExch == InitExch /\ [][NextExch]_vars

---------------------------------------------------------------------------
(* fhe-operations/src/single_ops.rs: SeqOpsData, a Vec<SeqOpItem> (the     *)
(* same code as SingleOpsData in fhe-exchange/src/lib.rs).                 *)

\* SeqOpsData::new: Self(Vec::new()).
SeqOpsData_new == <<>>

\* SeqOpsData::from_vec: Self(data).
SeqOpsData_from_vec(data) == data

\* A mutant of push that inserts the item at the front.
SeqOpsData_push_front(data, item) == <<item>> \o data

\* SeqOpsData::push: self.0.push(item).
SeqOpsData_push(data, item) == Append(data, item)

\* SeqOpsData::len: self.0.len().
SeqOpsData_len(data) == Len(data)

\* SeqOpsData::is_empty: self.0.is_empty().
SeqOpsData_is_empty(data) == Len(data) = 0

\* SeqOpsData::iter_over_data: self.0.iter(), collected.
SeqOpsData_iter_over_data(data) == [k \in 1 .. Len(data) |-> data[k]]

InitSeq ==
    /\ IdleCoeff /\ IdleRing /\ IdleRand /\ IdleCkks /\ IdleOps /\ IdleScaled /\ IdleEnc /\ IdleSrv /\ IdleWire /\ IdleExch /\ IdleSel /\ IdleEq /\ IdleDeg /\ IdleCs /\ IdleTrunc /\ IdleNet /\ IdleRem /\ IdleLaw
    /\ build = "release"
    /\ qdata = <<>> /\ qgiven = <<>> /\ qpushed = <<>>
    /\ qstage = "start"

SeqNew ==
    /\ qstage = "start"
    /\ qdata' = SeqOpsData_new
    /\ qstage' = "new"
    /\ UNCHANGED <<build, lawVars, remVars, netVars, truncVars, csVars, degVars, eqVars, selVars, coeffVars, ringVars, randVars, ckksVars, opsVars, scaledVars, encVars,
                   srvVars, wireVars, exchVars, qgiven, qpushed>>

SeqFromVec ==
    /\ qstage = "start"
    /\ \E v \in SeqUpTo(BatchItems, MaxFromVec) :
          /\ qdata' = SeqOpsData_from_vec(v)
          /\ qgiven' = v
    /\ qstage' = "from_vec"
    /\ UNCHANGED <<build, lawVars, remVars, netVars, truncVars, csVars, degVars, eqVars, selVars, coeffVars, ringVars, randVars, ckksVars, opsVars, scaledVars, encVars,
                   srvVars, wireVars, exchVars, qpushed>>

SeqPush ==
    /\ qstage \in {"new", "from_vec", "push"}
    /\ Len(qpushed) < MaxPush
    /\ \E item \in BatchItems :
          /\ qdata' = SeqOpsData_push(qdata, item)
          /\ qpushed' = Append(qpushed, item)
    /\ qstage' = "push"
    /\ UNCHANGED <<build, lawVars, remVars, netVars, truncVars, csVars, degVars, eqVars, selVars, coeffVars, ringVars, randVars, ckksVars, opsVars, scaledVars, encVars,
                   srvVars, wireVars, exchVars, qgiven>>

NextSeq == SeqNew \/ SeqFromVec \/ SeqPush

SpecSeq == InitSeq /\ [][NextSeq]_vars

---------------------------------------------------------------------------
(* fhe-operations/src/selectable_collection.rs: SelectableItem<F, C> and   *)
(* SelectableCollection<F, C>, over the exact cryptosystem of its tests.   *)

\* const F of the tests: the number of flag slots of an item.
F == 2

\* TestCryptoSystem::cipher / decipher: the ciphertext wraps the plaintext.
cipher(plaintext) == [data |-> plaintext]
decipher(ciphertext) == ciphertext.data

\* TestCryptoSystem::operate2: Add and Mul on the wrapped data.
TestCryptoSystem_operate2(op, lhs, rhs) ==
    [data |-> IF op = "Add" THEN lhs.data + rhs.data ELSE lhs.data * rhs.data]

\* SelectableCS for TestCryptoSystem.
NEUTRAL_ADD == 0
NEUTRAL_MUL == 1

\* flag_to_plaintext: On is the multiplicative, Off the additive identity.
flag_to_plaintext(flag) == IF flag = "On" THEN NEUTRAL_MUL ELSE NEUTRAL_ADD

\* SelectableItem::new: the value ciphered, every flag the ciphered Off.
SelectableItem_new(value) ==
    [ciphertext |-> cipher(value),
     flags |-> [j \in 1 .. F |-> cipher(flag_to_plaintext("Off"))]]

\* SelectableItem::get_flag: self.flags.get(index), index counted from 0.
get_flag(item, index) ==
    IF index < Len(item.flags) THEN Some(item.flags[index + 1]) ELSE None

\* A mutant of set_flag_plain that writes every flag slot.
set_flag_plain_all(item, index, flag) ==
    IF index >= Len(item.flags) THEN Panic
    ELSE Ok([item EXCEPT !.flags = [j \in 1 .. F |-> cipher(flag_to_plaintext(flag))]])

\* SelectableItem::set_flag_plain: self.flags[index] = cipher(flag); an
\* index out of the array panics.
set_flag_plain(item, index, flag) ==
    IF index >= Len(item.flags) THEN Panic
    ELSE Ok([item EXCEPT !.flags[index + 1] = cipher(flag_to_plaintext(flag))])

\* One call of cs.operate2, as recorded in selCalls.
Call(op, lhs, rhs) == [op |-> op, lhs |-> lhs, rhs |-> rhs]

\* The loop of operate_many from index i (counted from 1) on.
RECURSIVE OperateManyLoop(_, _, _, _, _)
OperateManyLoop(op, items, i, sum, calls) ==
    IF i > Len(items) THEN [res |-> Ok(sum), calls |-> calls]
    ELSE OperateManyLoop(op, items, i + 1,
                         TestCryptoSystem_operate2(op, sum, items[i].ciphertext),
                         Append(calls, Call(op, sum, items[i].ciphertext)))

\* A mutant of operate_many that starts the loop at the first item again.
operate_many_from_zero(op, items) ==
    IF Len(items) = 0 THEN [res |-> Panic, calls |-> <<>>]
    ELSE OperateManyLoop(op, items, 1, items[1].ciphertext, <<>>)

\* A mutant of operate_many that returns the ciphered additive identity for
\* an empty collection.
operate_many_unchecked(op, items) ==
    IF Len(items) = 0 THEN [res |-> Ok(cipher(NEUTRAL_ADD)), calls |-> <<>>]
    ELSE OperateManyLoop(op, items, 2, items[1].ciphertext, <<>>)

\* operate_many: sum starts as items[0].ciphertext (an index panic on an
\* empty collection), then op against every further item.
operate_many(op, items) ==
    IF Len(items) = 0 THEN [res |-> Panic, calls |-> <<>>]
    ELSE OperateManyLoop(op, items, 2, items[1].ciphertext, <<>>)

\* The loop of operate_many_where_flag over items.iter().skip(1).
RECURSIVE WhereFlagLoop(_, _, _, _, _)
WhereFlagLoop(flag_index, items, i, sum, calls) ==
    IF i > Len(items) THEN [res |-> Ok(sum), calls |-> calls]
    ELSE LET flag == get_flag(items[i], flag_index)
         IN IF ~flag.some THEN [res |-> Panic, calls |-> calls]
            ELSE LET product == TestCryptoSystem_operate2("Mul", items[i].ciphertext, flag.v)
                 IN WhereFlagLoop(flag_index, items, i + 1,
                                  TestCryptoSystem_operate2("Add", sum, product),
                                  calls \o <<Call("Mul", items[i].ciphertext, flag.v),
                                             Call("Add", sum, product)>>)

\* A mutant of operate_many_where_flag that adds the items without their
\* flags.
operate_many_where_flag_unflagged(flag_index, items) ==
    IF Len(items) = 0 THEN [res |-> Panic, calls |-> <<>>]
    ELSE OperateManyLoop("Add", items, 2, items[1].ciphertext, <<>>)

\* operate_many_where_flag: assert!(!is_empty), then ciphertext MUL flag of
\* every item folded with ADD; get_flag(..).unwrap() panics on a missing slot.
operate_many_where_flag(flag_index, items) ==
    IF Len(items) = 0 THEN [res |-> Panic, calls |-> <<>>]
    ELSE LET first_flag == get_flag(items[1], flag_index)
         IN IF ~first_flag.some THEN [res |-> Panic, calls |-> <<>>]
            ELSE WhereFlagLoop(flag_index, items, 2,
                               TestCryptoSystem_operate2("Mul", items[1].ciphertext, first_flag.v),
                               <<Call("Mul", items[1].ciphertext, first_flag.v)>>)

\* Plaintexts pushed into the collection.
SelPlain == {2, 3}

\* SelectableCollection::new().
InitSel ==
    /\ IdleCoeff /\ IdleRing /\ IdleRand /\ IdleCkks /\ IdleOps /\ IdleScaled /\ IdleEnc /\ IdleSrv /\ IdleWire /\ IdleExch /\ IdleSeq /\ IdleEq /\ IdleDeg /\ IdleCs /\ IdleTrunc /\ IdleNet /\ IdleRem /\ IdleLaw
    /\ build = "release"
    /\ selItems = <<>> /\ selValues = <<>> /\ selFlags = <<>>
    /\ selRes = Ok(0) /\ selCalls = <<>> /\ selArg = [op |-> "Add", flag_index |-> 0]
    /\ selOp = "new"

\* push_plain(item, cs).
SelPushPlain ==
    /\ selOp # "panicked"
    /\ Len(selItems) < MaxItems
    /\ \E value \in SelPlain :
          /\ selItems' = Append(selItems, SelectableItem_new(value))
          /\ selValues' = Append(selValues, value)
    /\ selFlags' = Append(selFlags, [j \in 1 .. F |-> "Off"])
    /\ selOp' = "push_plain"
    /\ UNCHANGED <<build, lawVars, remVars, netVars, truncVars, csVars, degVars, eqVars, coeffVars, ringVars, randVars, ckksVars, opsVars, scaledVars, encVars,
                   srvVars, wireVars, exchVars, seqVars, selRes, selCalls, selArg>>

\* items[i].set_flag_plain(index, flag, cs), index in 0 ..= F.
SelSetFlagPlain ==
    /\ selOp # "panicked"
    /\ \E i \in 1 .. Len(selItems), index \in 0 .. F, flag \in {"On", "Off"} :
          LET r == set_flag_plain(selItems[i], index, flag)
          IN IF IsOk(r)
             THEN /\ selItems' = [selItems EXCEPT ![i] = r.v]
                  /\ selFlags' = [selFlags EXCEPT ![i][index + 1] = flag]
                  /\ selOp' = "set_flag_plain"
             ELSE /\ UNCHANGED <<selItems, selFlags>>
                  /\ selOp' = "panicked"
    /\ UNCHANGED <<build, lawVars, remVars, netVars, truncVars, csVars, degVars, eqVars, coeffVars, ringVars, randVars, ckksVars, opsVars, scaledVars, encVars,
                   srvVars, wireVars, exchVars, seqVars, selValues, selRes, selCalls, selArg>>

\* operate_many(op, cs).
SelOperateMany ==
    /\ selOp # "panicked"
    /\ \E op \in {"Add", "Mul"} :
          LET r == operate_many(op, selItems)
          IN /\ selRes' = r.res
             /\ selCalls' = r.calls
             /\ selArg' = [op |-> op, flag_index |-> 0]
    /\ selOp' = "operate_many"
    /\ UNCHANGED <<build, lawVars, remVars, netVars, truncVars, csVars, degVars, eqVars, coeffVars, ringVars, randVars, ckksVars, opsVars, scaledVars, encVars,
                   srvVars, wireVars, exchVars, seqVars, selItems, selValues, selFlags>>

\* operate_many_where_flag(flag_index, cs), flag_index in 0 ..= F.
SelOperateManyWhereFlag ==
    /\ selOp # "panicked"
    /\ \E flag_index \in 0 .. F :
          LET r == operate_many_where_flag(flag_index, selItems)
          IN /\ selRes' = r.res
             /\ selCalls' = r.calls
             /\ selArg' = [op |-> "Add", flag_index |-> flag_index]
    /\ selOp' = "operate_many_where_flag"
    /\ UNCHANGED <<build, lawVars, remVars, netVars, truncVars, csVars, degVars, eqVars, coeffVars, ringVars, randVars, ckksVars, opsVars, scaledVars, encVars,
                   srvVars, wireVars, exchVars, seqVars, selItems, selValues, selFlags>>

NextSel == SelPushPlain \/ SelSetFlagPlain \/ SelOperateMany \/ SelOperateManyWhereFlag

SpecSel == InitSel /\ [][NextSel]_vars

---------------------------------------------------------------------------
(* fhe-core/src/pring.rs: impl PartialEq for Polynomial<P, N>.             *)

\* A mutant of eq that compares the common prefix only.
Polynomial_eq_prefix(x, y) ==
    LET min_len == Min(Len(x), Len(y))
    IN SubSeq(x, 1, min_len) = SubSeq(y, 1, min_len)

\* eq: the common prefix must agree and the longer side must be 0 past it.
Polynomial_eq(x, y) ==
    LET min_len == Min(Len(x), Len(y))
    IN IF SubSeq(x, 1, min_len) # SubSeq(y, 1, min_len) THEN FALSE
       ELSE IF Len(x) > min_len THEN \A i \in (min_len + 1) .. Len(x) : x[i] = 0
       ELSE IF Len(y) > min_len THEN \A i \in (min_len + 1) .. Len(y) : y[i] = 0
       ELSE TRUE

\* Raw coefficients of the polynomials that are compared, in Polynomial<7, 2>.
EqRaw == {0, 1}

InitEq ==
    /\ IdleCoeff /\ IdleRing /\ IdleRand /\ IdleCkks /\ IdleOps /\ IdleScaled /\ IdleEnc /\ IdleSrv /\ IdleWire /\ IdleExch /\ IdleSeq /\ IdleSel /\ IdleDeg /\ IdleCs /\ IdleTrunc /\ IdleNet /\ IdleRem /\ IdleLaw
    /\ build = "release"
    /\ \E a, b, c \in SeqUpTo(EqRaw, MaxEqLen) :
          /\ va = Polynomial_new(build, 7, 2, a)
          /\ vb = Polynomial_new(build, 7, 2, b)
          /\ vc = Polynomial_new(build, 7, 2, c)
    /\ veq = [aa |-> TRUE, ab |-> TRUE, ba |-> TRUE, bc |-> TRUE, ac |-> TRUE]
    /\ vop = "start"

\* a == a, a == b, b == a, b == c, a == c.
PolyEq ==
    /\ vop = "start"
    /\ veq' = [aa |-> Polynomial_eq(va, va), ab |-> Polynomial_eq(va, vb),
               ba |-> Polynomial_eq(vb, va), bc |-> Polynomial_eq(vb, vc),
               ac |-> Polynomial_eq(va, vc)]
    /\ vop' = "eq"
    /\ UNCHANGED <<build, lawVars, remVars, netVars, truncVars, csVars, degVars, coeffVars, ringVars, randVars, ckksVars, opsVars, scaledVars, encVars,
                   srvVars, wireVars, exchVars, seqVars, selVars, va, vb, vc>>

NextEq == PolyEq

SpecEq == InitEq /\ [][NextEq]_vars

---------------------------------------------------------------------------
(* fhe-core/src/pring.rs: Polynomial::degree.                              *)

\* The while loop of degree: d steps down while coeffs[d - 1] is 0.
RECURSIVE DegreeLoop(_, _)
DegreeLoop(c, d) ==
    IF d > 0 /\ c[d] = 0 THEN DegreeLoop(c, d - 1) ELSE d

\* Polynomial::degree: d starts at coeffs.len().
Polynomial_degree(c) == DegreeLoop(c, Len(c))

\* Raw coefficients of the polynomials measured, in Polynomial<7, 3>.
DegRaw == {0, 1, 2, 4}

InitDeg ==
    /\ IdleCoeff /\ IdleRing /\ IdleRand /\ IdleCkks /\ IdleOps /\ IdleScaled /\ IdleEnc /\ IdleSrv /\ IdleWire /\ IdleExch /\ IdleSeq /\ IdleSel /\ IdleEq /\ IdleCs /\ IdleTrunc /\ IdleNet /\ IdleRem /\ IdleLaw
    /\ build = "release"
    /\ \E raw \in SeqUpTo(DegRaw, MaxDegLen) : dpoly = Polynomial_new(build, 7, 3, raw)
    /\ ddeg = 0
    /\ dop = "start"

\* p.degree().
PolyDegree ==
    /\ dop = "start"
    /\ ddeg' = Polynomial_degree(dpoly)
    /\ dop' = "degree"
    /\ UNCHANGED <<build, lawVars, remVars, netVars, truncVars, csVars, coeffVars, ringVars, randVars, ckksVars, opsVars, scaledVars, encVars,
                   srvVars, wireVars, exchVars, seqVars, selVars, eqVars, dpoly>>

NextDeg == PolyDegree

SpecDeg == InitDeg /\ [][NextDeg]_vars

---------------------------------------------------------------------------
(* fhe-core/src/api.rs: the CryptoSystem trait, and its implementations    *)
(* SealCkksCS and SealBfvCS (seal-lib/src/lib.rs) and ZamaTfheCS           *)
(* (zama-lib/src/lib.rs).  A ciphertext is [v, size]: the value it         *)
(* deciphers to and its number of polynomials (2 when fresh, more after a  *)
(* product).  A CryptoSystem is [scheme, relin_key]: relin_key tells       *)
(* whether key generation returned a relinearization key.  An operation is *)
(* [tag, arg].                                                             *)

Ct(v, size) == [v |-> v, size |-> size]

\* sealy evaluator: add and add_inplace both call Evaluator_Add, with a
\* fresh destination and with the left operand as destination.
Evaluator_Add(a, b) == Ct(a.v + b.v, Max(a.size, b.size))

\* sealy evaluator: multiply and multiply_inplace both call Evaluator_Multiply.
Evaluator_Multiply(a, b) == Ct(a.v * b.v, a.size + b.size - 1)

\* sealy evaluator: add_plain and add_plain_inplace.
Evaluator_AddPlain(a, p) == Ct(a.v + p, a.size)

\* sealy evaluator: multiply_plain and multiply_plain_inplace.
Evaluator_MultiplyPlain(a, p) == Ct(a.v * p, a.size)

\* sealy evaluator: relinearize brings the ciphertext back to 2 polynomials.
Evaluator_Relinearize(a) == Ct(a.v, 2)

\* sealy evaluator: exponentiate, relinearizing after every product.
RECURSIVE Evaluator_Exponentiate(_, _)
Evaluator_Exponentiate(a, e) ==
    IF e <= 1 THEN a
    ELSE Evaluator_Relinearize(Evaluator_Multiply(Evaluator_Exponentiate(a, e - 1), a))

\* CryptoSystem::operate1, per scheme.
operate1(cs, op, lhs) ==
    IF cs.scheme = "SealCkks"
    THEN IF op.tag = "AddPlain" THEN Ok(Evaluator_AddPlain(lhs, op.arg))
         ELSE IF op.tag = "MulPlain" THEN Ok(Evaluator_MultiplyPlain(lhs, op.arg))
         ELSE Panic   \* Resize: panic!("Resize operation needs operate_mut ...")
    ELSE IF cs.scheme = "SealBfv"
    THEN IF op.tag = "AddPlain" THEN Ok(Evaluator_AddPlain(lhs, op.arg))
         ELSE IF op.tag = "MulPlain" THEN Ok(Evaluator_MultiplyPlain(lhs, op.arg))
         ELSE IF cs.relin_key THEN Ok(Evaluator_Exponentiate(lhs, op.arg))
         ELSE Panic   \* Exp: self.relin_key.as_ref().unwrap()
    ELSE IF op.tag = "Neg" THEN Ok(Ct(0 - lhs.v, lhs.size))
         ELSE Ok(Ct(0 - lhs.v - 1, lhs.size))   \* Not

\* CryptoSystem::operate2, per scheme.
CryptoSystem_operate2(cs, op, lhs, rhs) ==
    IF op.tag = "Add" THEN Ok(Evaluator_Add(lhs, rhs))
    ELSE IF op.tag = "Mul" THEN Ok(Evaluator_Multiply(lhs, rhs))
    ELSE Ok(Ct(lhs.v - rhs.v, lhs.size))   \* Sub, ZamaTfheCS only

\* impls::resize: todo!("resize").
resize(c) == Panic

\* A mutant of operate1_inplace in which Resize leaves the ciphertext as it is.
operate1_inplace_resizing(cs, op, lhs) ==
    IF cs.scheme = "SealCkks" /\ op.tag = "Resize" THEN Ok(lhs) ELSE operate1(cs, op, lhs)

\* CryptoSystem::operate1_inplace: the value of lhs after the call.  The
\* trait's default is *lhs = self.operate1(operation, lhs); SealCkksCS and
\* SealBfvCS override it with the in-place calls of the evaluator.
operate1_inplace(cs, op, lhs) ==
    IF cs.scheme = "SealCkks"
    THEN IF op.tag = "Resize" THEN resize(lhs)
         ELSE IF op.tag = "AddPlain" THEN Ok(Evaluator_AddPlain(lhs, op.arg))
         ELSE Ok(Evaluator_MultiplyPlain(lhs, op.arg))
    ELSE IF cs.scheme = "SealBfv"
    THEN IF op.tag = "AddPlain" THEN Ok(Evaluator_AddPlain(lhs, op.arg))
         ELSE IF op.tag = "MulPlain" THEN Ok(Evaluator_MultiplyPlain(lhs, op.arg))
         ELSE IF cs.relin_key THEN Ok(Evaluator_Exponentiate(lhs, op.arg))
         ELSE Panic
    ELSE operate1(cs, op, lhs)

\* CryptoSystem::operate2_inplace: the value of lhs after the call; rhs is
\* borrowed immutably.
operate2_inplace(cs, op, lhs, rhs) ==
    IF cs.scheme \in {"SealCkks", "SealBfv"}
    THEN IF op.tag = "Add" THEN Ok(Evaluator_Add(lhs, rhs)) ELSE Ok(Evaluator_Multiply(lhs, rhs))
    ELSE CryptoSystem_operate2(cs, op, lhs, rhs)

\* CryptoSystem::relinearize: the value of the ciphertext after the call.
\* The trait gives no default body.  SealCkksCS unwraps its relin_key;
\* SealBfvCS and ZamaTfheCS have an empty body.
relinearize(cs, c) ==
    IF cs.scheme = "SealCkks"
    THEN IF cs.relin_key THEN Ok(Evaluator_Relinearize(c)) ELSE Panic
    ELSE Ok(c)

\* The CryptoSystems of the model; ZamaTfheCS holds no relinearization key.
CryptoSystems ==
    {[scheme |-> s, relin_key |-> k] : s \in {"SealCkks", "SealBfv"}, k \in BOOLEAN}
        \cup {[scheme |-> "ZamaTfhe", relin_key |-> FALSE]}

CsCiphertexts == {Ct(v, size) : v \in 2 .. MaxCsValue, size \in {2, 3}}

\* The variants of Operation1 and Operation2 of a scheme.
Operations1(cs) ==
    IF cs.scheme = "SealCkks"
    THEN {[tag |-> t, arg |-> p] : t \in {"AddPlain", "MulPlain"}, p \in {0, 2}}
             \cup {[tag |-> "Resize", arg |-> 0]}
    ELSE IF cs.scheme = "SealBfv"
    THEN {[tag |-> t, arg |-> p] : t \in {"AddPlain", "MulPlain"}, p \in {0, 2}}
             \cup {[tag |-> "Exp", arg |-> e] : e \in {1, 2}}
    ELSE {[tag |-> t, arg |-> 0] : t \in {"Neg", "Not"}}

Operations2(cs) ==
    IF cs.scheme = "ZamaTfhe" THEN {[tag |-> t, arg |-> 0] : t \in {"Add", "Mul", "Sub"}}
    ELSE {[tag |-> t, arg |-> 0] : t \in {"Add", "Mul"}}

InitCs ==
    /\ IdleCoeff /\ IdleRing /\ IdleRand /\ IdleCkks /\ IdleOps /\ IdleScaled /\ IdleEnc /\ IdleSrv /\ IdleWire /\ IdleExch /\ IdleSeq /\ IdleSel /\ IdleEq /\ IdleDeg /\ IdleTrunc /\ IdleNet /\ IdleRem /\ IdleLaw
    /\ build = "release"
    /\ ysys \in CryptoSystems
    /\ ylhs \in CsCiphertexts /\ yrhs \in CsCiphertexts
    /\ yrhs2 = yrhs
    /\ yop = [tag |-> "none", arg |-> 0]
    /\ yout = Panic /\ yinp = Panic
    /\ ystage = "start"

\* operate1 on lhs, and operate1_inplace on a clone of lhs.
CsOperate1 ==
    /\ ystage = "start"
    /\ \E op \in Operations1(ysys) :
          /\ yop' = op
          /\ yout' = operate1(ysys, op, ylhs)
          /\ yinp' = operate1_inplace(ysys, op, ylhs)
    /\ ystage' = "operate1"
    /\ UNCHANGED <<build, lawVars, remVars, netVars, truncVars, coeffVars, ringVars, randVars, ckksVars, opsVars, scaledVars, encVars,
                   srvVars, wireVars, exchVars, seqVars, selVars, eqVars, degVars,
                   ysys, ylhs, yrhs, yrhs2>>

\* operate2 on lhs and rhs, and operate2_inplace on a clone of lhs.
CsOperateTwo ==
    /\ ystage = "start"
    /\ \E op \in Operations2(ysys) :
          /\ yop' = op
          /\ yout' = CryptoSystem_operate2(ysys, op, ylhs, yrhs)
          /\ yinp' = operate2_inplace(ysys, op, ylhs, yrhs)
    /\ yrhs2' = yrhs
    /\ ystage' = "operate2"
    /\ UNCHANGED <<build, lawVars, remVars, netVars, truncVars, coeffVars, ringVars, randVars, ckksVars, opsVars, scaledVars, encVars,
                   srvVars, wireVars, exchVars, seqVars, selVars, eqVars, degVars,
                   ysys, ylhs, yrhs>>

\* relinearize on a clone of lhs.
CsRelinearize ==
    /\ ystage = "start"
    /\ yinp' = relinearize(ysys, ylhs)
    /\ yop' = [tag |-> "relinearize", arg |-> 0]
    /\ ystage' = "relinearize"
    /\ UNCHANGED <<build, lawVars, remVars, netVars, truncVars, coeffVars, ringVars, randVars, ckksVars, opsVars, scaledVars, encVars,
                   srvVars, wireVars, exchVars, seqVars, selVars, eqVars, degVars,
                   ysys, ylhs, yrhs, yrhs2, yout>>

NextCs == CsOperate1 \/ CsOperateTwo \/ CsRelinearize

SpecCs == InitCs /\ [][NextCs]_vars

---------------------------------------------------------------------------
(* fhe-core/src/rand/distributions.rs: Truncated, and fhe-core/src/rand.rs *)
(* rand_gaussian_truncated.  An outcome of the inner distribution is       *)
(* Ok(x), Ok(NaN) (a Gaussian can return NaN: its uniform samples are      *)
(* libm::remainder of an arbitrary f64 bit pattern) or the CSPRNG's error. *)

OkNaN == [kind |-> "nan", v |-> 0]

\* RangeInclusive::contains: lo <= rd && rd <= hi; false on NaN.
Contains(lo, hi, rd) == rd.kind = "ok" /\ lo <= rd.v /\ rd.v <= hi

\* Mutants of the loop body: one that accepts one value above the upper
\* bound, one that samples again on an error.
Truncated_sample_step_wide(bounds, rd) ==
    IF rd.kind = "err" THEN [brk |-> TRUE, res |-> Err]
    ELSE IF Contains(bounds.lo, bounds.hi + 1, rd) THEN [brk |-> TRUE, res |-> rd]
    ELSE [brk |-> FALSE, res |-> rd]

Truncated_sample_step_retry(bounds, rd) ==
    IF Contains(bounds.lo, bounds.hi, rd) THEN [brk |-> TRUE, res |-> rd]
    ELSE [brk |-> FALSE, res |-> rd]

\* One iteration of the loop of Truncated::sample, rd being the outcome of
\* self.d.sample(): `?` returns the error, an in-bounds value breaks the
\* loop, anything else loops.
Truncated_sample_step(bounds, rd) ==
    IF rd.kind = "err" THEN [brk |-> TRUE, res |-> Err]
    ELSE IF Contains(bounds.lo, bounds.hi, rd) THEN [brk |-> TRUE, res |-> rd]
    ELSE [brk |-> FALSE, res |-> rd]

\* One iteration of the loop of rand_gaussian_truncated(mu, sigma, beta),
\* gaussian being the outcome of rand_gaussian(mu, sigma).
rand_gaussian_truncated_step(g, gaussian) ==
    IF gaussian.kind = "err" THEN [brk |-> TRUE, res |-> Err]
    ELSE IF gaussian.kind = "ok" /\ gaussian.v >= g.mu - g.beta /\ gaussian.v <= g.mu + g.beta
         THEN [brk |-> TRUE, res |-> gaussian]
    ELSE [brk |-> FALSE, res |-> gaussian]

\* The step of the function at hand.
LoopStep(fn, arg, rd) ==
    IF fn = "Truncated" THEN Truncated_sample_step(arg, rd)
    ELSE rand_gaussian_truncated_step(arg, rd)

\* The inclusive bounds of the call at hand.
TruncLo == IF tfn = "Truncated" THEN targ.lo ELSE targ.mu - targ.beta
TruncHi == IF tfn = "Truncated" THEN targ.hi ELSE targ.mu + targ.beta

\* Bounds of a Truncated (the last one is an empty range) and parameters of
\* rand_gaussian_truncated.
TruncBounds == {[lo |-> -1, hi |-> 1], [lo |-> 0, hi |-> 0], [lo |-> 1, hi |-> 0]}
GaussParams == {[mu |-> 0, beta |-> 1], [mu |-> 1, beta |-> 2]}

\* Values the inner distribution returns: around the bounds, inside and outside.
InnerValues == {Ok(x) : x \in -2 .. 4}
InnerOutcomes(fn) ==
    InnerValues \cup {Err} \cup (IF fn = "Truncated" THEN {} ELSE {OkNaN})

InitTrunc ==
    /\ IdleCoeff /\ IdleRing /\ IdleRand /\ IdleCkks /\ IdleOps /\ IdleScaled /\ IdleEnc /\ IdleSrv /\ IdleWire /\ IdleExch /\ IdleSeq /\ IdleSel /\ IdleEq /\ IdleDeg /\ IdleCs /\ IdleNet /\ IdleRem /\ IdleLaw
    /\ build = "release"
    /\ \/ tfn = "Truncated" /\ targ \in TruncBounds
       \/ tfn = "rand_gaussian_truncated" /\ targ \in GaussParams
    /\ tlast = Err /\ tres = Err
    /\ titers = 0 /\ tcoeffs = <<>>
    /\ tpc = "loop"

\* One iteration of the loop on the inner outcome rd.
TruncIterate(rd) ==
    LET st == LoopStep(tfn, targ, rd)
    IN /\ tlast' = rd
       /\ IF st.brk
          THEN tres' = st.res /\ tpc' = "returned" /\ titers' = titers
          ELSE tres' = tres /\ tpc' = "loop" /\ titers' = Min(titers + 1, MaxIters)
       /\ UNCHANGED <<build, lawVars, remVars, netVars, coeffVars, ringVars, randVars, ckksVars, opsVars, scaledVars, encVars,
                      srvVars, wireVars, exchVars, seqVars, selVars, eqVars, degVars, csVars,
                      tfn, targ, tcoeffs>>

\* The inner distribution returns a value inside the bounds.
TruncDrawIn ==
    /\ tpc = "loop"
    /\ \E rd \in InnerOutcomes(tfn) : Contains(TruncLo, TruncHi, rd) /\ TruncIterate(rd)

\* The inner distribution returns a value outside the bounds, or NaN.
TruncDrawOut ==
    /\ tpc = "loop"
    /\ \E rd \in InnerOutcomes(tfn) :
          rd.kind # "err" /\ ~Contains(TruncLo, TruncHi, rd) /\ TruncIterate(rd)

\* The inner distribution returns the error of the CSPRNG.
TruncDrawErr ==
    /\ tpc = "loop"
    /\ TruncIterate(Err)

\* Polynomial::random: d.sample().unwrap().into() for each of the M
\* coefficients, then Polynomial::new.
RandomUnwrap ==
    /\ tpc = "returned" /\ tfn = "Truncated"
    /\ IF ~IsOk(tres)
       THEN tpc' = "panicked" /\ tcoeffs' = tcoeffs
       ELSE /\ tcoeffs' = IF Len(tcoeffs) + 1 < RingM(RandomExp)
                          THEN Append(tcoeffs, tres.v)
                          ELSE Polynomial_new(build, 7, RandomExp, Append(tcoeffs, tres.v))
            /\ tpc' = IF Len(tcoeffs) + 1 < RingM(RandomExp) THEN "loop" ELSE "done"
    /\ titers' = 0
    /\ UNCHANGED <<build, lawVars, remVars, netVars, coeffVars, ringVars, randVars, ckksVars, opsVars, scaledVars, encVars,
                   srvVars, wireVars, exchVars, seqVars, selVars, eqVars, degVars, csVars,
                   tfn, targ, tlast, tres>>

NextTrunc == TruncDrawIn \/ TruncDrawOut \/ TruncDrawErr \/ RandomUnwrap

SpecTrunc == InitTrunc /\ [][NextTrunc]_vars

\* The inner distribution is sampled fairly: while the loop runs it returns
\* an in-bounds value or an error at some point.
SpecTruncFair == SpecTrunc /\ WF_vars(TruncDrawIn \/ TruncDrawErr)

---------------------------------------------------------------------------
(* src/server.rs: handle_client on an arbitrary request.                   *)

\* Words a client can send: lengths, variant indices, ciphertext bytes; 3 is
\* no operation tag and no byte of a ciphertext.
RequestWords == {0, 1, 2, 3}

InitNet ==
    /\ IdleCoeff /\ IdleRing /\ IdleRand /\ IdleCkks /\ IdleOps /\ IdleScaled /\ IdleEnc /\ IdleSrv /\ IdleWire /\ IdleExch /\ IdleSeq /\ IdleSel /\ IdleEq /\ IdleDeg /\ IdleCs /\ IdleTrunc /\ IdleRem /\ IdleLaw
    /\ build = "release"
    /\ nbytes = <<>> /\ ndec = Err /\ nsent = {}
    /\ npc = "accept"

\* unsized_data_recv(&mut stream) returns the request.
NetReceive ==
    /\ npc = "accept"
    /\ nbytes' \in SeqUpTo(RequestWords, MaxRequest)
    /\ npc' = "received"
    /\ UNCHANGED <<build, lawVars, remVars, coeffVars, ringVars, randVars, ckksVars, opsVars, scaledVars, encVars,
                   srvVars, wireVars, exchVars, seqVars, selVars, eqVars, degVars, csVars,
                   truncVars, ndec, nsent>>

\* unsized_data_recv fails: the error is logged and the handler returns.
NetReceiveFails ==
    /\ npc = "accept"
    /\ npc' = "failed"
    /\ UNCHANGED <<build, lawVars, remVars, coeffVars, ringVars, randVars, ckksVars, opsVars, scaledVars, encVars,
                   srvVars, wireVars, exchVars, seqVars, selVars, eqVars, degVars, csVars,
                   truncVars, nbytes, ndec, nsent>>

\* bincode::decode_from_slice_with_context(&data, config, bfv_ctx), then
\* `let Ok(exch_data) = ... else { log::error!; return }`.
NetDecode ==
    /\ npc = "received"
    /\ ndec' = SeqOpsData_decode(nbytes)
    /\ npc' = IF ndec'.kind = "ok" THEN "decoded"
              ELSE IF ndec'.kind = "err" THEN "failed" ELSE "panicked"
    /\ UNCHANGED <<build, lawVars, remVars, coeffVars, ringVars, randVars, ckksVars, opsVars, scaledVars, encVars,
                   srvVars, wireVars, exchVars, seqVars, selVars, eqVars, degVars, csVars,
                   truncVars, nbytes, nsent>>

\* operate2 on every item and the results sent back.
NetReply ==
    /\ npc = "decoded"
    /\ nsent' = {<<ndec.v[k].op, ndec.v[k].lhs, ndec.v[k].rhs>> : k \in 1 .. Len(ndec.v)}
    /\ npc' = "sent"
    /\ UNCHANGED <<build, lawVars, remVars, coeffVars, ringVars, randVars, ckksVars, opsVars, scaledVars, encVars,
                   srvVars, wireVars, exchVars, seqVars, selVars, eqVars, degVars, csVars,
                   truncVars, nbytes, ndec>>

NextNet == NetReceive \/ NetReceiveFails \/ NetDecode \/ NetReply

SpecNet == InitNet /\ [][NextNet]_vars

---------------------------------------------------------------------------
(* ckks-lib/src/polynomial.rs: rem and rem_cyclo with the width of the     *)
(* coefficients (Coeff = i64) kept.                                        *)

\* All outcomes of a sequence are values.
SeqOk(os) == \A i \in 1 .. Len(os) : IsOk(os[i])

\* The while loop of Polynomial::rem on the working copy sc, the products
\* and differences formed in the machine integer:
\*   self_coeffs[shift + i] -= rhs.coeffs()[i] * factor.
RECURSIVE RemLoopI64(_, _, _)
RemLoopI64(b, sc, rhs) ==
    LET self_degree == compute_degree(sc)
        rhs_degree == compute_degree(rhs)
    IN IF self_degree < rhs_degree THEN Ok(sc)
       ELSE IF rhs_degree = 0 THEN Panic
       ELSE LET shift == self_degree - rhs_degree
                factor == TruncDiv(sc[self_degree], rhs[rhs_degree])
                sub == [i \in 1 .. Len(sc) |->
                          IF shift < i /\ i <= shift + rhs_degree
                          THEN LET pr == Checked(b, rhs[i - shift] * factor)
                               IN IF IsOk(pr) THEN Checked(b, sc[i] - pr.v) ELSE Panic
                          ELSE Ok(sc[i])]
            IN IF ~SeqOk(sub) THEN Panic
               ELSE RemLoopI64(b, [[i \in 1 .. Len(sc) |-> sub[i].v] EXCEPT ![self_degree] = 0], rhs)

\* Polynomial::rem: the coefficients of the remainder of self by rhs.
Polynomial_rem(b, coeffs, rhs) == RemLoopI64(b, coeffs, rhs)

\* The loop of rem_cyclo after the first c coefficients:
\*   r[j] = (r[j] + coeff * k).rem_euclid(modulus),
\* j wrapping at m and k changing sign at every wrap.
RECURSIVE RemCycloLoop(_, _, _, _, _)
RemCycloLoop(b, coeffs, m, modulus, c) ==
    IF c = 0 THEN Ok([i \in 1 .. m |-> 0])
    ELSE LET r == RemCycloLoop(b, coeffs, m, modulus, c - 1)
             j == (c - 1) % m
             k == IF ((c - 1) \div m) % 2 = 0 THEN 1 ELSE -1
         IN IF ~IsOk(r) THEN Panic
            ELSE LET pr == Checked(b, coeffs[c] * k)
                 IN IF ~IsOk(pr) THEN Panic
                    ELSE LET sm == Checked(b, r.v[j + 1] + pr.v)
                         IN IF ~IsOk(sm) THEN Panic
                            ELSE Ok([r.v EXCEPT ![j + 1] = rem_euclid(sm.v, modulus)])

\* Polynomial::rem_cyclo(n, modulus), a positive modulus.
Polynomial_rem_cyclo_i64(b, coeffs, n, modulus) ==
    RemCycloLoop(b, coeffs, Pow2(n), modulus, Len(coeffs))

\* The coefficients of X^(2^n) + 1.
CycloDivisor(n) == [i \in 1 .. (Pow2(n) + 1) |-> IF i = 1 \/ i = Pow2(n) + 1 THEN 1 ELSE 0]

\* Coefficients of the dividends: small ones and the two ends of the integer type.
DividendCoeffs == {IntMin, -1, 0, 1, IntMax}

\* The exponents n: X + 1 and X^2 + 1.
CycloExps == {0, 1}

InitRem ==
    /\ IdleCoeff /\ IdleRing /\ IdleRand /\ IdleCkks /\ IdleOps /\ IdleScaled /\ IdleEnc /\ IdleSrv /\ IdleWire /\ IdleExch /\ IdleSeq /\ IdleSel /\ IdleEq /\ IdleDeg /\ IdleCs /\ IdleTrunc /\ IdleNet /\ IdleLaw
    /\ build \in {"debug", "release"}
    /\ ga \in SeqUpTo(DividendCoeffs, MaxDividendLen)
    /\ gn \in CycloExps
    /\ gp \in Moduli
    /\ grem = Ok(<<>>) /\ gcyc = Ok(<<>>)
    /\ gop = "start"

\* a.rem(&X^(2^n) + 1) and a.rem_cyclo(n, p).
RemBoth ==
    /\ gop = "start"
    /\ grem' = Polynomial_rem(build, ga, CycloDivisor(gn))
    /\ gcyc' = Polynomial_rem_cyclo_i64(build, ga, gn, gp)
    /\ gop' = "done"
    /\ UNCHANGED <<build, lawVars, coeffVars, ringVars, randVars, ckksVars, opsVars, scaledVars, encVars,
                   srvVars, wireVars, exchVars, seqVars, selVars, eqVars, degVars, csVars,
                   truncVars, netVars, ga, gn, gp>>

NextRem == RemBoth

SpecRem == InitRem /\ [][NextRem]_vars

---------------------------------------------------------------------------
(* fhe-core/src/pring.rs: add and multiply combined as in the ring laws.   *)

\* multiply(a, add(b, c)).
MulOfSum(bd, P, N, a, b, c) == Polynomial_multiply(bd, P, N, a, Polynomial_add(bd, P, b, c))

\* add(multiply(a, b), multiply(a, c)).
SumOfMul(bd, P, N, a, b, c) ==
    LET ab == Polynomial_multiply(bd, P, N, a, b)
        ac == Polynomial_multiply(bd, P, N, a, c)
    IN IF IsOk(ab) /\ IsOk(ac) THEN Ok(Polynomial_add(bd, P, ab.v, ac.v)) ELSE Panic

\* Raw coefficients of the operands: 1 and -1 (stored as P - 1).
LawRaw == {1, -1}

InitLaw ==
    /\ IdleCoeff /\ IdleRing /\ IdleRand /\ IdleCkks /\ IdleOps /\ IdleScaled /\ IdleEnc /\ IdleSrv /\ IdleWire /\ IdleExch /\ IdleSeq /\ IdleSel /\ IdleEq /\ IdleDeg /\ IdleCs /\ IdleTrunc /\ IdleNet /\ IdleRem
    /\ build \in {"debug", "release"}
    /\ lP \in Moduli
    /\ \E a, b, c \in SeqUpTo(LawRaw, MaxLawLen) :
          /\ la = Polynomial_new(build, lP, LawExp, a)
          /\ lb = Polynomial_new(build, lP, LawExp, b)
          /\ lc = Polynomial_new(build, lP, LawExp, c)
    /\ lres = [ab |-> Ok(<<>>), ba |-> Ok(<<>>), lhs |-> Ok(<<>>), rhs |-> Ok(<<>>)]
    /\ lop = "start"

\* The four expressions of the two laws.
LawEval ==
    /\ lop = "start"
    /\ lres' = [ab |-> Polynomial_multiply(build, lP, LawExp, la, lb),
                ba |-> Polynomial_multiply(build, lP, LawExp, lb, la),
                lhs |-> MulOfSum(build, lP, LawExp, la, lb, lc),
                rhs |-> SumOfMul(build, lP, LawExp, la, lb, lc)]
    /\ lop' = "done"
    /\ UNCHANGED <<build, coeffVars, ringVars, randVars, ckksVars, opsVars, scaledVars, encVars,
                   srvVars, wireVars, exchVars, seqVars, selVars, eqVars, degVars, csVars,
                   truncVars, netVars, remVars, lP, la, lb, lc>>

NextLaw == LawEval

SpecLaw == InitLaw /\ [][NextLaw]_vars

---------------------------------------------------------------------------
(* Specification SpecCoeff: arithmetic on two coefficients.                *)

InitCoeff ==
    /\ IdleRing /\ IdleRand /\ IdleCkks /\ IdleOps /\ IdleScaled /\ IdleEnc /\ IdleSrv /\ IdleWire /\ IdleExch /\ IdleSeq /\ IdleSel /\ IdleEq /\ IdleDeg /\ IdleCs /\ IdleTrunc /\ IdleNet /\ IdleRem /\ IdleLaw
    /\ build \in {"debug", "release"}
    /\ cP \in Moduli
    /\ \E x, y \in -MaxRaw .. (cP + MaxRaw) :
          /\ ca = Coeff_new(cP, x)
          /\ cb = Coeff_new(cP, y)
    /\ cres = Ok(0)
    /\ cop = "new"

\* The operands of an operation: the two constructed coefficients, or the
\* value a previous operation returned.
CoeffOperands == {ca, cb} \cup (IF IsOk(cres) /\ cop # "new" THEN {cres.v} ELSE {})

CoeffAdd ==
    /\ IsOk(cres)
    /\ \E x, y \in CoeffOperands :
          /\ cres' = Coeff_add(build, cP, x, y)
          /\ ca' = x /\ cb' = y
    /\ cop' = "add"
    /\ UNCHANGED <<build, lawVars, remVars, netVars, truncVars, csVars, degVars, eqVars, selVars, seqVars, exchVars, wireVars, srvVars, encVars, cP, ringVars, randVars, ckksVars, opsVars, scaledVars>>

CoeffSub ==
    /\ IsOk(cres)
    /\ \E x, y \in CoeffOperands :
          /\ cres' = Coeff_sub(build, cP, x, y)
          /\ ca' = x /\ cb' = y
    /\ cop' = "sub"
    /\ UNCHANGED <<build, lawVars, remVars, netVars, truncVars, csVars, degVars, eqVars, selVars, seqVars, exchVars, wireVars, srvVars, encVars, cP, ringVars, randVars, ckksVars, opsVars, scaledVars>>

CoeffMul ==
    /\ IsOk(cres)
    /\ \E x, y \in CoeffOperands :
          /\ cres' = Coeff_mul(build, cP, x, y)
          /\ ca' = x /\ cb' = y
    /\ cop' = "mul"
    /\ UNCHANGED <<build, lawVars, remVars, netVars, truncVars, csVars, degVars, eqVars, selVars, seqVars, exchVars, wireVars, srvVars, encVars, cP, ringVars, randVars, ckksVars, opsVars, scaledVars>>

CoeffNeg ==
    /\ IsOk(cres)
    /\ \E x \in CoeffOperands :
          /\ cres' = Coeff_neg(build, cP, x)
          /\ ca' = x
    /\ cop' = "neg"
    /\ UNCHANGED <<build, lawVars, remVars, netVars, truncVars, csVars, degVars, eqVars, selVars, seqVars, exchVars, wireVars, srvVars, encVars, cP, cb, ringVars, randVars, ckksVars, opsVars, scaledVars>>

NextCoeff == CoeffAdd \/ CoeffSub \/ CoeffMul \/ CoeffNeg

SpecCoeff == InitCoeff /\ [][NextCoeff]_vars

---------------------------------------------------------------------------
(* Claims about Polynomial<P, N>.                                          *)

\* A normalised polynomial: at most M stored coefficients, each in [0, P).
InRing(P, N, x) ==
    /\ Len(x) <= RingM(N)
    /\ \A i \in 1 .. Len(x) : x[i] \in 0 .. (P - 1)

\* C3: every polynomial returned by Polynomial::new and by any sequence of
\* Polynomial::add and Polynomial::multiply on such polynomials has stored
\* length <= M and every coefficient in [0, P).
C3_RingClosed ==
    (rop \in {"new", "add", "multiply"})
        => /\ InRing(rP, rN, ra)
           /\ InRing(rP, rN, rb)
           /\ IsOk(racc) => InRing(rP, rN, racc.v)

\* C3 witness: a second chained operation was a multiply whose product
\* vector was longer than M and had to be folded.
C3_Witness ==
    /\ rop = "multiply" /\ IsOk(racc) /\ rsteps = 2
    /\ Len(rx) + Len(ry) - 1 > RingM(rN)
    /\ \E i \in 1 .. Len(racc.v) : racc.v[i] # 0

\* Sum over q >= q0 with q * M + r < L of (-1)^q * raw[q * M + r], over the
\* unbounded integers (r and the positions of raw counted from 0).
RECURSIVE AltSum(_, _, _, _)
AltSum(raw, M, r, q) ==
    IF q * M + r >= Len(raw) THEN 0
    ELSE (IF q % 2 = 0 THEN 1 ELSE -1) * raw[q * M + r + 1] + AltSum(raw, M, r, q + 1)

\* C4: the polynomial folded from a raw list has at position r (0 <= r < M,
\* positions past the stored length reading as 0) the alternating sum of
\* the raw coefficients at r, r + M, r + 2M, ..., reduced mod P.
C4_FoldLaw ==
    (rop \in {"new", "add", "multiply"})
        => /\ Len(rfold.out) <= RingM(rN)
           /\ \A r \in 0 .. (RingM(rN) - 1) :
                 GetOr0(rfold.out, r + 1) = AltSum(rfold.raw, RingM(rN), r, 0) % rP

\* C4 witness: a raw list longer than 2 * M was folded, with non-zero
\* coefficients arriving with sign - (q = 1) and with sign + (q = 2).
C4_Witness ==
    /\ rop = "new" /\ rN = 1
    /\ Len(rfold.raw) = 5
    /\ rfold.raw[1] = 0 /\ rfold.raw[3] = -1 /\ rfold.raw[5] = rP + 2
    /\ Len(rfold.out) = 2 /\ rfold.out[1] = 3

---------------------------------------------------------------------------
(* Claims about key generation, encryption and decryption.                 *)

\* The precondition of the round trip: |v_i| * scale < p / 2 for every i
\* (plaintexts in thousandths).
PlaintextFits ==
    \A i \in 1 .. Len(pt) : 2 * Abs(pt[i]) * pscale < 1000 * cfg.modulus

\* C1: for every plaintext v with |v_i| * scale < p / 2, every generated
\* key pair and every encryption randomness, decrypt(encrypt(v, scale))
\* differs from v by less than 5e-2 in every entry i < len(v).
C1_RoundTrip ==
    (kpc = "decrypted" /\ PlaintextFits)
        => /\ Len(dec) >= Len(pt)
           /\ \A i \in 1 .. Len(pt) : Abs(dec[i] - pt[i]) < 50

\* Coefficient k (from 0) of a * b in Z[X]/(X^N + 1), summed over the first
\* n coefficients of a: a_i * b_(k-i) for i <= k, and -a_i * b_(k-i+N) for
\* i > k.
RECURSIVE NegacyclicAt(_, _, _, _, _)
NegacyclicAt(a, b, N, k, n) ==
    IF n = 0 THEN 0
    ELSE LET i == n - 1
         IN NegacyclicAt(a, b, N, k, n - 1)
              + (IF i <= k THEN a[i + 1] * b[k - i + 1] ELSE -(a[i + 1] * b[k - i + N + 1]))

\* C8: generate_keys returns (p0, p1) and s with p0 = (-p1) * s + e in
\* Z_p[X]/(X^N + 1), * the negacyclic product, |e_i| <= beta and every
\* coefficient of p1 in [0, p).
C8_PublicKeyRelation ==
    (kpc \in {"keys", "encrypted", "decrypted"})
        => /\ \A k \in 0 .. (cfg.degree - 1) :
                 (pkey.p0.coeffs[k + 1]
                    - (NegacyclicAt(Negated(pkey.p1.coeffs), skey.coeffs, cfg.degree, k, cfg.degree)
                         + kerr[k + 1])) % cfg.modulus = 0
           /\ \A i \in 1 .. cfg.degree : Abs(kerr[i]) <= cfg.beta
           /\ \A i \in 1 .. cfg.degree : pkey.p1.coeffs[i] \in 0 .. (cfg.modulus - 1)

\* C9: the two halves of a fresh ciphertext carry the encryption scale.
C9_CommonScale ==
    (kpc \in {"encrypted", "decrypted"})
        => (ct.c0.scale = pscale /\ ct.c1.scale = pscale)

---------------------------------------------------------------------------
(* Claims about homomorphic addition and scaled addition.                  *)

\* C2: every coefficient i of homomorphic_add(A, B) is congruent mod p to
\* A_i + B_i and stays at index i: no coefficient is dropped or shifted
\* (a position past the stored length reads as 0).
C2_AddCoordinateWise ==
    (hop = "add")
        => \A i \in 1 .. Max(Len(hlhs.coeffs), Len(hrhs.coeffs)) :
              (GetOr0(hres.coeffs, i)
                 - (GetOr0(hlhs.coeffs, i) + GetOr0(hrhs.coeffs, i))) % hmod = 0

\* The operand of ScaledPolynomial::add with the higher scale, and the other.
ScaledHigher == IF slhs.scale >= srhs.scale THEN slhs ELSE srhs
ScaledLower == IF slhs.scale >= srhs.scale THEN srhs ELSE slhs

---------------------------------------------------------------------------
(* Claims about ScaledPolynomial::encode and decode.                       *)

\* Every plaintext entry satisfies |v_i| * scale < P / 2.
EncFits == \A i \in 1 .. Len(ev) : 2 * Abs(ev[i]) * escale < 1000 * eP

\* C11: for every vector v of length <= M with |v_i| * scale < P / 2,
\* negative entries included, encode(v, scale).decode() has the length of
\* v and differs from v by less than 1e-3 in every entry.
C11_EncodeDecode ==
    (eop = "decoded" /\ EncFits)
        => /\ Len(edec) = Len(ev)
           /\ \A i \in 1 .. Len(ev) : Abs(edec[i] - ev[i]) < 1

\* The round trip restricted to vectors without a negative entry.
EncodeDecodeNonNegative ==
    (eop = "decoded" /\ EncFits /\ \A i \in 1 .. Len(ev) : ev[i] >= 0)
        => /\ Len(edec) = Len(ev)
           /\ \A i \in 1 .. Len(ev) : Abs(edec[i] - ev[i]) < 1

---------------------------------------------------------------------------
(* Claims about the batch execution of handle_client.                      *)

\* C12: the result sequence sent back for a decoded batch of n items has
\* length n and its k-th element is operate2(op_k, lhs_k, rhs_k), under
\* every interleaving of the workers.
C12_OrderPreserving ==
    (bstage = "sent")
        => /\ Len(bsent) = Len(bitems)
           /\ \A k \in 1 .. Len(bitems) :
                 bsent[k] = operate2(bitems[k].op, bitems[k].lhs, bitems[k].rhs)

\* Number of positions of a sequence holding the value x.
Occurrences(s, x) == Cardinality({k \in 1 .. Len(s) : s[k] = x})

\* The results sent back are the results of the items in some order.
SentIsPermutation ==
    (bstage = "sent")
        => /\ Len(bsent) = Len(bitems)
           /\ \A x \in {bsent[k] : k \in 1 .. Len(bsent)} :
                 Occurrences(bsent, x)
                    = Cardinality({k \in 1 .. Len(bitems) :
                                      operate2(bitems[k].op, bitems[k].lhs, bitems[k].rhs) = x})

---------------------------------------------------------------------------
(* Claims about the wire encoding of a batch.                              *)

\* C13: decoding the encoding of a batch of n items yields a batch of
\* length n whose k-th item has the lhs, rhs and operation of the k-th
\* original item.
C13_BatchRoundTrip ==
    (wop = "decoded")
        => /\ IsOk(wdec)
           /\ Len(wdec.v) = Len(wbatch)
           /\ \A k \in 1 .. Len(wbatch) :
                 /\ wdec.v[k].lhs = wbatch[k].lhs
                 /\ wdec.v[k].rhs = wbatch[k].rhs
                 /\ wdec.v[k].op = wbatch[k].op

\* C13 witness: a decoded batch of two items with different operations
\* whose ciphertexts have different lengths, lhs differing from rhs.
C13_Witness ==
    /\ wop = "decoded"
    /\ wbatch = <<SeqOpItem_new(<<1, 0>>, <<0>>, "Mul"), SeqOpItem_new(<<>>, <<1, 0>>, "Add")>>
    /\ wbytes = <<2, 2, 1, 0, 1, 0, 1, 0, 2, 1, 0, 0>>
    /\ IsOk(wdec)
    /\ wdec.v = wbatch

---------------------------------------------------------------------------
(* Claims about ExchangeData.                                              *)

\* C14: in every ExchangeData obtained through new or through decoding the
\* vectors lhs, rhs and operation have equal length, len() never fails its
\* assertions, and iter_over_data yields len() triples, the k-th being
\* (lhs[k], rhs[k], operation[k]).
C14_SameLength ==
    /\ (xstage \in {"built", "iterated", "measured", "panicked"})
          => (Len(xlhs) = Len(xrhs) /\ Len(xlhs) = Len(xops))
    /\ xstage # "panicked"
    /\ (xstage = "measured")
          => /\ Len(xiter) = xlen.v
             /\ \A k \in 1 .. Len(xiter) : xiter[k] = <<xlhs[k], xrhs[k], xops[k]>>

\* What len() and iter_over_data do hold to: len() returns exactly when the
\* three lengths agree, and then the iterator yields len() triples.
LenChecksLengths ==
    /\ (xstage = "panicked") => ~(Len(xlhs) = Len(xrhs) /\ Len(xlhs) = Len(xops))
    /\ (xstage = "measured")
          => /\ Len(xlhs) = Len(xrhs) /\ Len(xlhs) = Len(xops)
             /\ xlen.v = Len(xlhs)
             /\ Len(xiter) = xlen.v
             /\ \A k \in 1 .. Len(xiter) : xiter[k] = <<xlhs[k], xrhs[k], xops[k]>>

---------------------------------------------------------------------------
(* Claims about SeqOpsData.                                                *)

\* C15: after new() and k push calls len() = k, is_empty() holds iff
\* k = 0 and iter_over_data yields the pushed items in insertion order;
\* from_vec(v) yields the items of v in the order of v (followed by the
\* items pushed afterwards).
C15_Bookkeeping ==
    (qstage \in {"new", "from_vec", "push"})
        => /\ SeqOpsData_len(qdata) = Len(qgiven) + Len(qpushed)
           /\ SeqOpsData_is_empty(qdata) <=> (Len(qgiven) + Len(qpushed) = 0)
           /\ SeqOpsData_iter_over_data(qdata) = qgiven \o qpushed

\* C15 witness: three different items pushed after new().
C15_Witness ==
    /\ qstage = "push"
    /\ qgiven = <<>>
    /\ qpushed = <<SeqOpItem_new(2, 3, "Add"), SeqOpItem_new(3, 3, "Mul"), SeqOpItem_new(2, 3, "Mul")>>
    /\ SeqOpsData_len(qdata) = 3
    /\ ~SeqOpsData_is_empty(qdata)
    /\ SeqOpsData_iter_over_data(qdata) = qpushed

---------------------------------------------------------------------------
(* Claims about SelectableItem and SelectableCollection.                   *)

\* Sum of the plaintexts of the first n items whose flag slot j is On.
RECURSIVE SumWhereOn(_, _)
SumWhereOn(j, n) ==
    IF n = 0 THEN 0
    ELSE SumWhereOn(j, n - 1) + (IF selFlags[n][j] = "On" THEN selValues[n] ELSE 0)

\* C16: on a non-empty collection operate_many_where_flag(flag_index)
\* deciphers to the sum of the plaintexts of the items whose flag
\* flag_index is On; it calls MUL(item.ciphertext, flag) for each item and
\* folds the products with ADD in item order.
C16_FoldWhereFlag ==
    (selOp = "operate_many_where_flag" /\ Len(selItems) >= 1 /\ selArg.flag_index < F)
        => /\ IsOk(selRes)
           /\ decipher(selRes.v) = SumWhereOn(selArg.flag_index + 1, Len(selItems))
           /\ Len(selCalls) = 2 * Len(selItems) - 1
           /\ selCalls[1] = Call("Mul", selItems[1].ciphertext,
                                 selItems[1].flags[selArg.flag_index + 1])
           /\ \A i \in 2 .. Len(selItems) :
                 /\ selCalls[2 * i - 2] = Call("Mul", selItems[i].ciphertext,
                                               selItems[i].flags[selArg.flag_index + 1])
                 /\ selCalls[2 * i - 1].op = "Add"
                 /\ decipher(selCalls[2 * i - 1].lhs) = SumWhereOn(selArg.flag_index + 1, i - 1)
                 /\ decipher(selCalls[2 * i - 1].rhs)
                       = (IF selFlags[i][selArg.flag_index + 1] = "On" THEN selValues[i] ELSE 0)

\* C16 witness: three items, the flag on for the first and the third only.
C16_Witness ==
    /\ selOp = "operate_many_where_flag"
    /\ selArg.flag_index = 1
    /\ selValues = <<2, 3, 3>>
    /\ selFlags = <<<<"Off", "On">>, <<"On", "Off">>, <<"Off", "On">>>>
    /\ selRes = Ok(cipher(5))
    /\ Len(selCalls) = 5

\* The left fold of op over the ciphertexts of the first n items.
RECURSIVE LeftFold(_, _)
LeftFold(op, n) ==
    IF n = 1 THEN selItems[1].ciphertext
    ELSE TestCryptoSystem_operate2(op, LeftFold(op, n - 1), selItems[n].ciphertext)

\* C17: operate_many(op) on n >= 1 items returns the left fold of op over
\* the ciphertexts in item order, starting from the first item's
\* ciphertext, with exactly n - 1 calls of operate2 (none for n = 1).
C17_LeftFold ==
    (selOp = "operate_many" /\ Len(selItems) >= 1)
        => /\ IsOk(selRes)
           /\ selRes.v = LeftFold(selArg.op, Len(selItems))
           /\ Len(selCalls) = Len(selItems) - 1
           /\ \A i \in 1 .. Len(selCalls) :
                 selCalls[i] = Call(selArg.op, LeftFold(selArg.op, i), selItems[i + 1].ciphertext)

\* C17 witness: Mul folded over the items 2, 3, 3.
C17_Witness ==
    /\ selOp = "operate_many"
    /\ selArg.op = "Mul"
    /\ selValues = <<2, 3, 3>>
    /\ selRes = Ok(cipher(18))
    /\ selCalls = <<Call("Mul", cipher(2), cipher(3)), Call("Mul", cipher(6), cipher(3))>>

\* C18: operate_many and operate_many_where_flag on a collection without
\* items panic and return no ciphertext.
C18_EmptyFoldPanics ==
    (selOp \in {"operate_many", "operate_many_where_flag"} /\ Len(selItems) = 0)
        => (selRes.kind = "panic" /\ selCalls = <<>>)

\* C18 witness: operate_many_where_flag on the new, empty collection.
C18_Witness ==
    /\ selOp = "operate_many_where_flag"
    /\ Len(selItems) = 0
    /\ selRes.kind = "panic"

\* C19: every flag slot deciphers to the plaintext of the last value
\* written to it by set_flag_plain (Off for a slot never written, as in a
\* new item), and the item's ciphertext still deciphers to its value:
\* set_flag_plain changes the slot it names and nothing else.
C19_FlagsTrackLastWrite ==
    (selOp # "idle")
        => /\ Len(selItems) = Len(selValues) /\ Len(selItems) = Len(selFlags)
           /\ \A i \in 1 .. Len(selItems) :
                 /\ decipher(selItems[i].ciphertext) = selValues[i]
                 /\ Len(selItems[i].flags) = F
                 /\ \A j \in 1 .. F :
                       decipher(selItems[i].flags[j])
                          = (IF selFlags[i][j] = "On" THEN NEUTRAL_MUL ELSE NEUTRAL_ADD)

\* C19 witness: after set_flag_plain, an item with slot 0 On and slot 1 Off
\* next to an item with all flags Off.
C19_Witness ==
    /\ selOp = "set_flag_plain"
    /\ Len(selItems) = 2
    /\ selFlags = <<<<"On", "Off">>, <<"Off", "Off">>>>
    /\ decipher(selItems[1].flags[1]) = 1 /\ decipher(selItems[1].flags[2]) = 0
    /\ decipher(selItems[2].flags[1]) = 0 /\ decipher(selItems[2].flags[2]) = 0
    /\ decipher(selItems[1].ciphertext) = selValues[1]

---------------------------------------------------------------------------
(* Claims about the equality of polynomials.                               *)

\* A coefficient sequence without its trailing zeros.
RECURSIVE Trimmed(_)
Trimmed(x) ==
    IF Len(x) = 0 THEN x
    ELSE IF x[Len(x)] = 0 THEN Trimmed(SubSeq(x, 1, Len(x) - 1))
    ELSE x

\* C20: two polynomials compare equal iff their coefficient sequences are
\* equal after trimming trailing zeros, and the relation is reflexive,
\* symmetric and transitive.
C20_EqLengthInsensitive ==
    (vop = "eq")
        => /\ veq.ab <=> (Trimmed(va) = Trimmed(vb))
           /\ veq.bc <=> (Trimmed(vb) = Trimmed(vc))
           /\ veq.aa
           /\ veq.ab <=> veq.ba
           /\ (veq.ab /\ veq.bc) => veq.ac

\* C20 witness: a trailing zero is ignored and a trailing one is not:
\* [0, 1] equals [0, 1, 0] and differs from [0, 1, 1].
C20_Witness ==
    /\ vop = "eq"
    /\ va = <<0, 1>> /\ vb = <<0, 1, 0>> /\ vc = <<0, 1, 1>>
    /\ veq.ab /\ veq.ba /\ ~veq.bc /\ ~veq.ac

---------------------------------------------------------------------------
(* Claims about multiply on empty operands.                                *)

\* C21: multiply with an empty operand (either side or both) does not panic
\* and returns a polynomial equal to the empty polynomial.
C21_MultiplyEmptyTotal ==
    (rop = "multiply" /\ (rx = <<>> \/ ry = <<>>))
        => (IsOk(racc) /\ Polynomial_eq(racc.v, <<>>))

\* What multiply does hold to: with exactly one empty operand it returns
\* len - 1 zero coefficients, which equals the empty polynomial; it panics
\* on the length of the product exactly when both operands are empty.
MultiplyOneEmptyIsZero ==
    (rop = "multiply" /\ (rx = <<>> \/ ry = <<>>))
        => IF rx = <<>> /\ ry = <<>> THEN racc.kind = "panic"
           ELSE /\ IsOk(racc)
                /\ Len(racc.v) = Len(rx) + Len(ry) - 1
                /\ Polynomial_eq(racc.v, <<>>)

---------------------------------------------------------------------------
(* Claims about Polynomial::degree.                                        *)

\* Whether some coefficient of c is not 0.
HasNonZero(c) == \E i \in 1 .. Len(c) : c[i] # 0

\* The highest index, counted from 0, of a non-zero coefficient of c.
HighestNonZero(c) ==
    CHOOSE i \in 0 .. (Len(c) - 1) :
        c[i + 1] # 0 /\ \A j \in (i + 1) .. (Len(c) - 1) : c[j + 1] = 0

\* C22: degree() returns the highest index whose coefficient is non-zero
\* (3 for [1, 2, 0, 4], 1 for [1, 2, 0, 0]), trailing zeros ignored.
C22_DegreeHighestIndex ==
    (dop = "degree" /\ HasNonZero(dpoly)) => ddeg = HighestNonZero(dpoly)

\* What degree() does return: the number of coefficients left once the
\* trailing zeros are removed, which is one more than the highest non-zero
\* index and 0 for a polynomial without a non-zero coefficient.
DegreeIsTrimmedLen ==
    (dop = "degree")
        => /\ ddeg = Len(Trimmed(dpoly))
           /\ HasNonZero(dpoly) => ddeg = HighestNonZero(dpoly) + 1
           /\ ~HasNonZero(dpoly) => ddeg = 0

---------------------------------------------------------------------------
(* Claims about the CryptoSystem trait.                                    *)

InplaceFailsTogether ==
    (ystage = "operate1")
        => ((yout.kind = "panic")
               <=> (yop.tag = "Resize" \/ (yop.tag = "Exp" /\ ~ysys.relin_key)))

\* C24: relinearize returns and leaves the ciphertext unchanged for every
\* scheme without relinearization state, a SealCkksCS for which no
\* relinearization key was generated included.
C24_RelinearizeNoOp ==
    (ystage = "relinearize" /\ (ysys.scheme # "SealCkks" \/ ~ysys.relin_key))
        => (IsOk(yinp) /\ yinp.v = ylhs)

\* What relinearize does hold to: SealBfvCS and ZamaTfheCS leave the
\* ciphertext unchanged, SealCkksCS with a key keeps the value and returns 2
\* polynomials, and SealCkksCS without a key panics.
RelinearizeFrame ==
    (ystage = "relinearize")
        => IF ysys.scheme # "SealCkks" THEN IsOk(yinp) /\ yinp.v = ylhs
           ELSE IF ysys.relin_key THEN IsOk(yinp) /\ yinp.v = Ct(ylhs.v, 2)
           ELSE yinp.kind = "panic"

---------------------------------------------------------------------------
(* Claims about Truncated and the consumers of randomness.                 *)

\* C25: a failure of the CSPRNG is an error value: Truncated::sample
\* returns the inner error at once, and Polynomial::random hands it to its
\* caller instead of aborting.
C25_RandomnessErrorReturned ==
    /\ (tpc = "returned" /\ tlast.kind = "err") => tres.kind = "err"
    /\ tpc # "panicked"

\* What the samplers do hold to: the error of the inner distribution is
\* returned by the iteration that meets it, and Polynomial::random panics
\* only on such an error.
SampleReturnsErrAtOnce ==
    /\ (tpc = "returned") => (tlast.kind = "err" <=> tres.kind = "err")
    /\ (tpc = "panicked") => tres.kind = "err"

\* C28: a value returned by Truncated::sample lies in [lo, hi] and a value
\* returned by rand_gaussian_truncated in [mu - beta, mu + beta].
C28_TruncationBound ==
    (tpc = "returned" /\ tres.kind # "err")
        => (tres.kind = "ok" /\ TruncLo <= tres.v /\ tres.v <= TruncHi)

\* C28 witness: rand_gaussian_truncated(1, sigma, 2) returns 3 = mu + beta
\* after rejecting NaN and a value out of the bounds.
C28_Witness ==
    /\ tpc = "returned" /\ tfn = "rand_gaussian_truncated"
    /\ targ = [mu |-> 1, beta |-> 2]
    /\ tres = Ok(3) /\ titers = 2

\* C29: the loop of a call eventually returns when the inner distribution
\* is sampled fairly.
C29_Terminates == (tpc = "loop") ~> (tpc # "loop")

\* C29 witness: a call returns an in-bounds value after MaxIters (or more)
\* rejected samples, the loop having no bound of its own.
C29_Witness ==
    /\ tpc = "returned" /\ tfn = "Truncated"
    /\ titers = MaxIters /\ tres = Ok(0) /\ targ = [lo |-> 0, hi |-> 0]

---------------------------------------------------------------------------
(* Claims about malformed requests.                                        *)

\* The declared format, as a grammar: the number of words a ciphertext, an
\* item, n items take at the head of w, or -1 when w does not start with one.
FormatCiphertext(w) ==
    IF Len(w) = 0 THEN -1
    ELSE IF Len(w) < 1 + w[1] THEN -1
    ELSE IF \E i \in 2 .. (1 + w[1]) : w[i] > 2 THEN -1
    ELSE 1 + w[1]

FormatItem(w) ==
    LET l == FormatCiphertext(w)
    IN IF l < 0 THEN -1
       ELSE LET r == FormatCiphertext(SubSeq(w, l + 1, Len(w)))
            IN IF r < 0 THEN -1
               ELSE IF Len(w) < l + r + 1 THEN -1
               ELSE IF w[l + r + 1] \notin {0, 1} THEN -1
               ELSE l + r + 1

RECURSIVE FormatItems(_, _)
FormatItems(w, n) ==
    IF n = 0 THEN 0
    ELSE LET i == FormatItem(w)
         IN IF i < 0 THEN -1
            ELSE LET rest == FormatItems(SubSeq(w, i + 1, Len(w)), n - 1)
                 IN IF rest < 0 THEN -1 ELSE i + rest

\* A request starts with a batch of the declared format.
WellFormed(w) == Len(w) > 0 /\ FormatItems(Tail(w), w[1]) >= 0

\* C26: decoding a request that does not match the format returns a decode
\* error; it never panics, never yields a batch, and the server sends no
\* result for it.
C26_MalformedIsDecodeError ==
    (npc \in {"decoded", "failed", "panicked", "sent"} /\ ~WellFormed(nbytes))
        => (ndec.kind = "err" /\ npc = "failed" /\ nsent = {})

\* What handle_client does hold to: a malformed request never yields a batch
\* and no result is sent for it, and only well-formed requests are answered.
MalformedNeverAnswered ==
    /\ (npc \in {"decoded", "failed", "panicked", "sent"} /\ ~WellFormed(nbytes))
          => (ndec.kind # "ok" /\ nsent = {})
    /\ (npc \in {"decoded", "sent"}) => WellFormed(nbytes)

---------------------------------------------------------------------------
(* Claims about rem_cyclo and rem.                                         *)

\* Coefficient-wise congruence mod p, the shorter vector padded with 0.
CongruentMod(x, y, p) ==
    \A i \in 1 .. Max(Len(x), Len(y)) : (GetOr0(x, i) - GetOr0(y, i)) % p = 0

\* C27: for every coefficient vector a, exponent n and modulus p,
\* rem_cyclo(a, n, p) is coefficient-wise congruent mod p to the remainder
\* of the long division of a by X^(2^n) + 1.
C27_RemCycloIsRem ==
    (gop = "done")
        => (IsOk(grem) /\ IsOk(gcyc) /\ CongruentMod(grem.v, gcyc.v, gp))

\* A release build returns two remainders that are not congruent.
RemCycloDiffersInRelease ==
    /\ gop = "done" /\ build = "release"
    /\ ga = <<-1, IntMin>> /\ gn = 0 /\ gp = 7
    /\ IsOk(grem) /\ IsOk(gcyc) /\ ~CongruentMod(grem.v, gcyc.v, gp)

\* What the two functions do hold to: they agree mod p on every dividend
\* whose coefficients stay away from the ends of the integer type.
RemCycloIsRemSmall ==
    (gop = "done" /\ \A i \in 1 .. Len(ga) : Abs(ga[i]) <= 1)
        => (IsOk(grem) /\ IsOk(gcyc) /\ CongruentMod(grem.v, gcyc.v, gp))

---------------------------------------------------------------------------
(* Claims about the ring laws.                                             *)

\* The four expressions returned and both laws hold under ==.
LawsHold ==
    /\ IsOk(lres.ab) /\ IsOk(lres.ba) /\ IsOk(lres.lhs) /\ IsOk(lres.rhs)
    /\ Polynomial_eq(lres.ab.v, lres.ba.v)
    /\ Polynomial_eq(lres.lhs.v, lres.rhs.v)

\* C30: for all a, b, c built by Polynomial::new, multiply(a, b) ==
\* multiply(b, a) and multiply(a, add(b, c)) == add(multiply(a, b),
\* multiply(a, c)).
C30_RingLaws == (lop = "done") => LawsHold

\* What add and multiply do hold to: both laws, for a modulus whose products
\* fit the integer type and when no product is taken of two empty operands.
RingLawsWhereExact ==
    (lop = "done" /\ (lP - 1) * (lP - 1) + lP <= IntMax
         /\ (la # <<>> \/ (lb # <<>> /\ lc # <<>>)))
        => LawsHold

\* A release build returns two sides of the distributive law that differ.
DistributivityFailsInRelease ==
    /\ lop = "done" /\ build = "release"
    /\ IsOk(lres.lhs) /\ IsOk(lres.rhs) /\ ~Polynomial_eq(lres.lhs.v, lres.rhs.v)

---------------------------------------------------------------------------
(* Claims about Uniform.                                                   *)

\* C7: Uniform::new(start..=end).sample() reduces the raw random integer
\* modulo end - start + 1 and shifts by start (so that every value of
\* [start, end], end included, can be returned).
C7_UniformInclusive ==
    (uop = "sample" /\ IsOk(urd))
        => /\ IsOk(ures)
           /\ ures.v = (urd.v % (uend - ustart + 1)) + ustart

\* What the code does instead: the upper end of the range is never returned.
UniformNeverEnd ==
    (uop = "sample" /\ IsOk(ures)) => (ustart <= ures.v /\ ures.v < uend)

---------------------------------------------------------------------------
(* Claims about Coeff<P>.                                                  *)

\* Both operands of the last operation are canonical representatives.
CoeffOperandsCanonical ==
    /\ ca \in 0 .. (cP - 1)
    /\ cb \in 0 .. (cP - 1)

\* C5: for a, b in [0, P) the product Coeff(a) * Coeff(b) is computed
\* without overflow and stores (a * b) mod P taken over the unbounded
\* integers, also when P * P leaves the machine integer.
C5_MulExact ==
    (cop = "mul" /\ CoeffOperandsCanonical)
        => (IsOk(cres) /\ cres.v = (ca * cb) % cP)

\* C6: for a, b in [0, P) the value stored by a + b, a - b, a * b and -a is
\* the canonical representative in [0, P); in particular -Coeff(0) stores 0.
C6_Closed ==
    (cop \in {"add", "sub", "mul", "neg"} /\ CoeffOperandsCanonical /\ IsOk(cres))
        => cres.v \in 0 .. (cP - 1)

=============================================================================
